---- MODULE Spec2Model ----
(***************************************************************************)
(* Structured-note analysis of the single-collection Zotero MCP server:    *)
(* searchByElicitMetadata, getElicitSummary, compareMethodologies and      *)
(* extractResearchGaps of ZoteroSingleCollectionMCPServer, with the        *)
(* CallTool dispatcher and makeZoteroRequest.                              *)
(*                                                                         *)
(* JavaScript strings are sequences of one-character strings, so that      *)
(* includes, indexOf, toLowerCase, the regular expressions and             *)
(* cleanHTMLForDisplay are computed character by character.                *)
(***************************************************************************)
EXTENDS Integers, Sequences, FiniteSets, TLC

\* ------------------------------------------------------------------------
\* Bounds
\* ------------------------------------------------------------------------

\* largest number of items the configured collection holds
MaxItems == 3

\* how many times in a row the caller may issue the same search call
MaxRuns == 2

\* ------------------------------------------------------------------------
\* JavaScript string primitives
\* ------------------------------------------------------------------------

UpperToLower ==
  [c \in {"A","B","C","D","E","F","G","H","I","J","K","L","M","N","O","P","Q",
          "R","S","T","U","V","W","X","Y","Z"} |->
     CASE c = "A" -> "a" [] c = "B" -> "b" [] c = "C" -> "c" [] c = "D" -> "d"
       [] c = "E" -> "e" [] c = "F" -> "f" [] c = "G" -> "g" [] c = "H" -> "h"
       [] c = "I" -> "i" [] c = "J" -> "j" [] c = "K" -> "k" [] c = "L" -> "l"
       [] c = "M" -> "m" [] c = "N" -> "n" [] c = "O" -> "o" [] c = "P" -> "p"
       [] c = "Q" -> "q" [] c = "R" -> "r" [] c = "S" -> "s" [] c = "T" -> "t"
       [] c = "U" -> "u" [] c = "V" -> "v" [] c = "W" -> "w" [] c = "X" -> "x"
       [] c = "Y" -> "y" [] c = "Z" -> "z"]

LowerChar(c) == IF c \in DOMAIN UpperToLower THEN UpperToLower[c] ELSE c

\* String.prototype.toLowerCase
toLowerCase(s) == [i \in 1..Len(s) |-> LowerChar(s[i])]

\* t occurs in s at the 1-based position i
OccursAt(s, t, i) ==
  /\ i >= 1
  /\ i + Len(t) - 1 <= Len(s)
  /\ \A k \in 1..Len(t) : s[i + k - 1] = t[k]

\* the same, ignoring letter case (the i flag of a regular expression)
OccursAtCI(s, t, i) ==
  /\ i >= 1
  /\ i + Len(t) - 1 <= Len(s)
  /\ \A k \in 1..Len(t) : LowerChar(s[i + k - 1]) = LowerChar(t[k])

SetMin(S) == CHOOSE x \in S : \A y \in S : x <= y

\* String.prototype.includes
includes(s, t) == \E i \in 1..(Len(s) - Len(t) + 1) : OccursAt(s, t, i)

\* String.prototype.indexOf: 0-based index of the first occurrence, or -1
indexOf(s, t) ==
  LET P == {i \in 1..(Len(s) - Len(t) + 1) : OccursAt(s, t, i)}
  IN  IF P = {} THEN -1 ELSE SetMin(P) - 1

\* String.prototype.substring(start, end) for 0 <= start <= end <= length
substring(s, start, end) == SubSeq(s, start + 1, end)

WhiteSpace == {" ", "\n", "\t"}

\* String.prototype.trim
trim(s) ==
  LET Keep == {i \in 1..Len(s) : s[i] \notin WhiteSpace}
  IN  IF Keep = {} THEN <<>>
      ELSE SubSeq(s, SetMin(Keep), CHOOSE x \in Keep : \A y \in Keep : y <= x)

\* the concatenation piece[lo] \o ... \o piece[hi], by halving
RECURSIVE ConcatRange(_, _, _)
ConcatRange(piece, lo, hi) ==
  IF lo > hi THEN <<>>
  ELSE IF lo = hi THEN piece[lo]
  ELSE LET mid == (lo + hi) \div 2
       IN  ConcatRange(piece, lo, mid) \o ConcatRange(piece, mid + 1, hi)

\* position i lies in a match of /<[^>]*>/g: some "<" at a <= i is followed
\* by a ">" with no other ">" before it, and i is not past that ">".  (The
\* left-to-right scan starts a match at the first such "<" it reaches; a "<"
\* inside a match ends at the same ">" as the match.)
InTag(s, i) ==
  \E a \in 1..i :
    /\ s[a] = "<"
    /\ \A k \in (a + 1)..(i - 1) : s[k] # ">"
    /\ \E g \in (IF i > a THEN i ELSE a + 1)..Len(s) : s[g] = ">"

\* s.replace(/<[^>]*>/g, '')
stripTags(s) ==
  ConcatRange([i \in 1..Len(s) |-> IF InTag(s, i) THEN <<>> ELSE << s[i] >>],
              1, Len(s))

\* s.replace(/pat/g, rep) for a literal pat whose occurrences cannot overlap
\* (each pattern of the source starts with a character it does not repeat)
replaceAll(s, pat, rep) ==
  ConcatRange([i \in 1..Len(s) |->
                 IF OccursAt(s, pat, i) THEN rep
                 ELSE IF \E a \in (i - Len(pat) + 1)..(i - 1) : OccursAt(s, pat, a)
                      THEN <<>>
                      ELSE << s[i] >>],
              1, Len(s))

\* ------------------------------------------------------------------------
\* String literals of the source
\* ------------------------------------------------------------------------

s_ElicitAnalysis ==
  <<"E","l","i","c","i","t"," ","A","n","a","l","y","s","i","s">>

s_elicit_analysis ==
  <<"e","l","i","c","i","t","-","a","n","a","l","y","s","i","s">>

s_StudyDesign ==
  <<"S","t","u","d","y"," ","D","e","s","i","g","n">>

s_Region ==
  <<"R","e","g","i","o","n">>

s_StatisticalTechniques ==
  <<"S","t","a","t","i","s","t","i","c","a","l"," ","T","e","c","h","n","i","q","u","e","s">>

s_Intervention ==
  <<"I","n","t","e","r","v","e","n","t","i","o","n">>

s_OutcomeMeasured ==
  <<"O","u","t","c","o","m","e"," ","M","e","a","s","u","r","e","d">>

s_ResearchGaps ==
  <<"R","e","s","e","a","r","c","h"," ","G","a","p","s">>

s_FutureResearch ==
  <<"F","u","t","u","r","e"," ","R","e","s","e","a","r","c","h">>

s_NotSpecified ==
  <<"N","o","t"," ","s","p","e","c","i","f","i","e","d">>

s_NoIntervention ==
  <<"N","o"," ","i","n","t","e","r","v","e","n","t","i","o","n">>

s_intervention ==
  <<"i","n","t","e","r","v","e","n","t","i","o","n">>

s_no_intervention ==
  <<"n","o"," ","i","n","t","e","r","v","e","n","t","i","o","n">>

s_summary ==
  <<"s","u","m","m","a","r","y">>

s_main_findings ==
  <<"m","a","i","n"," ","f","i","n","d","i","n","g","s">>

s_methodology ==
  <<"m","e","t","h","o","d","o","l","o","g","y">>

s_limitations ==
  <<"l","i","m","i","t","a","t","i","o","n","s">>

s_research_question ==
  <<"r","e","s","e","a","r","c","h"," ","q","u","e","s","t","i","o","n">>

s_machine_learning ==
  <<"m","a","c","h","i","n","e"," ","l","e","a","r","n","i","n","g">>

s_longitudinal ==
  <<"l","o","n","g","i","t","u","d","i","n","a","l">>

s_causal ==
  <<"c","a","u","s","a","l">>

s_randomized ==
  <<"r","a","n","d","o","m","i","z","e","d">>

s_sample_size ==
  <<"s","a","m","p","l","e"," ","s","i","z","e">>

s_Summary ==
  <<"S","u","m","m","a","r","y">>

s_MainFindings ==
  <<"M","a","i","n"," ","F","i","n","d","i","n","g","s">>

s_Methodology ==
  <<"M","e","t","h","o","d","o","l","o","g","y">>

s_Limitations ==
  <<"L","i","m","i","t","a","t","i","o","n","s">>

s_ResearchQuestion ==
  <<"R","e","s","e","a","r","c","h"," ","Q","u","e","s","t","i","o","n">>

s_p_open ==
  <<"<","p">>

s_p_close ==
  <<"<","/","p",">">>

s_div_close ==
  <<"<","/","d","i","v",">">>

s_h2_open ==
  <<"<","h","2">>

s_h3_open ==
  <<"<","h","3">>

s_br ==
  <<"<","b","r",">">>

s_amp_entity ==
  <<"&","a","m","p",";">>

s_lt_entity ==
  <<"&","l","t",";">>

s_gt_entity ==
  <<"&","g","t",";">>

s_quot_entity ==
  <<"&","q","u","o","t",";">>

s_apos_entity ==
  <<"&","#","3","9",";">>

s_constructor ==
  <<"c","o","n","s","t","r","u","c","t","o","r">>

s_toString ==
  <<"t","o","S","t","r","i","n","g">>

s_valueOf ==
  <<"v","a","l","u","e","O","f">>

s_hasOwnProperty ==
  <<"h","a","s","O","w","n","P","r","o","p","e","r","t","y">>

\* ------------------------------------------------------------------------
\* cleanHTMLForDisplay, the field regular expressions, the note predicate
\* ------------------------------------------------------------------------

\* cleanHTMLForDisplay(html): tags removed, the five entities decoded in the
\* source's order, "<br>" turned into a space, the result trimmed
cleanHTMLForDisplay(html) ==
  IF html = <<>> THEN <<>>
  ELSE LET t0 == stripTags(html)
           t1 == replaceAll(t0, s_amp_entity, <<"&">>)
           t2 == replaceAll(t1, s_lt_entity, <<"<">>)
           t3 == replaceAll(t2, s_gt_entity, <<">">>)
           t4 == replaceAll(t3, s_quot_entity, <<"\"">>)
           t5 == replaceAll(t4, s_apos_entity, <<"'">>)
           t6 == replaceAll(t5, s_br, <<" ">>)
       IN  trim(t6)

\* "." of a regular expression matches every character of s[a..b]
NoLineBreak(s, a, b) == \A k \in a..b : s[k] # "\n"

\* noteContent.match(/<label>.*?<p[^>]*>(.*?)<\/p>/i): the capture group of
\* the leftmost match, <<capture>>, or <<>> when the expression does not match.
\* For a label at i the lazy ".*?" takes the nearest "<p" at j, "[^>]*>" ends
\* at the first ">" g after it and "(.*?)" at the first "</p>" m after that.
ParagraphMatches(s, label) ==
  LET n == Len(s)
      GtAfter(j) == {g \in (j + 2)..n : s[g] = ">"}
      CloseAfter(g) == {m \in (g + 1)..n : OccursAtCI(s, s_p_close, m)}
      Capture(j) ==
        IF GtAfter(j) = {} THEN <<>>
        ELSE LET g == SetMin(GtAfter(j))
             IN  IF CloseAfter(g) = {} THEN <<>>
                 ELSE LET m == SetMin(CloseAfter(g))
                      IN  IF NoLineBreak(s, g + 1, m - 1)
                          THEN << SubSeq(s, g + 1, m - 1) >>
                          ELSE <<>>
      Starts == {i \in 1..n : OccursAtCI(s, label, i)}
      Opens(i) == {j \in (i + Len(label))..n :
                     /\ OccursAtCI(s, s_p_open, j)
                     /\ NoLineBreak(s, i + Len(label), j - 1)
                     /\ Capture(j) # <<>>}
      Good == {i \in Starts : Opens(i) # {}}
  IN  IF Good = {} THEN <<>>
      ELSE Capture(SetMin(Opens(SetMin(Good))))

\* the lookahead (?=<\/div>|<h[23]) holds at position e
SectionEndAt(s, e) ==
  \/ OccursAtCI(s, s_div_close, e)
  \/ OccursAtCI(s, s_h2_open, e)
  \/ OccursAtCI(s, s_h3_open, e)

\* noteContent.match(/<label>.*?(?=<\/div>|<h[23])/gi) from position p on: the
\* successive non-overlapping matches, leftmost first (<<>> for null)
RECURSIVE SectionMatchesFrom(_, _, _)
SectionMatchesFrom(s, label, p) ==
  LET n == Len(s)
      Ends(i) == {e \in (i + Len(label))..(n + 1) :
                    /\ SectionEndAt(s, e)
                    /\ NoLineBreak(s, i + Len(label), e - 1)}
      Good == {i \in p..n : OccursAtCI(s, label, i) /\ Ends(i) # {}}
  IN  IF Good = {} THEN <<>>
      ELSE LET i == SetMin(Good)
               e == SetMin(Ends(i))
           IN  << SubSeq(s, i, e - 1) >> \o SectionMatchesFrom(s, label, e)

\* ------------------------------------------------------------------------
\* Queries and note contents of the backing library
\* ------------------------------------------------------------------------

\* 'Climate'
q_Climate ==
  <<"C","l","i","m","a","t","e">>

\* 'cash'
q_cash ==
  <<"c","a","s","h">>

\* 'RCT'
q_RCT ==
  <<"R","C","T">>

\* 'Research Gaps'
q_ResearchGaps ==
  <<"R","e","s","e","a","r","c","h"," ","G","a","p","s">>

\* '<div><h2>Elicit Analysis</h2><h3>Summary</h3><p>Climate risk</p><h3>Study Design</h3><p>RCT</p><h3>Intervention</h3><p>Cash</p><h3>Research Gaps</h3><p>Need longitudinal studies with causal design</p><h3>Future Research</h3><p>Use RANDOMIZED trials</p></div>'
note_A1 ==
  <<"<","d","i","v",">","<","h","2",">","E","l","i","c","i","t"," ","A","n","a","l","y","s","i",
    "s","<","/","h","2",">","<","h","3",">","S","u","m","m","a","r","y","<","/","h","3",">","<",
    "p",">","C","l","i","m","a","t","e"," ","r","i","s","k","<","/","p",">","<","h","3",">","S",
    "t","u","d","y"," ","D","e","s","i","g","n","<","/","h","3",">","<","p",">","R","C","T","<",
    "/","p",">","<","h","3",">","I","n","t","e","r","v","e","n","t","i","o","n","<","/","h","3",
    ">","<","p",">","C","a","s","h","<","/","p",">","<","h","3",">","R","e","s","e","a","r","c",
    "h"," ","G","a","p","s","<","/","h","3",">","<","p",">","N","e","e","d"," ","l","o","n","g",
    "i","t","u","d","i","n","a","l"," ","s","t","u","d","i","e","s"," ","w","i","t","h"," ","c",
    "a","u","s","a","l"," ","d","e","s","i","g","n","<","/","p",">","<","h","3",">","F","u","t",
    "u","r","e"," ","R","e","s","e","a","r","c","h","<","/","h","3",">","<","p",">","U","s","e",
    " ","R","A","N","D","O","M","I","Z","E","D"," ","t","r","i","a","l","s","<","/","p",">","<",
    "/","d","i","v",">">>

\* '<p>#elicit-analysis #design:rct</p><h3>Study Design</h3><p>RCT</p><p>No intervention, climate data</p><h3>Research Gaps</h3><p>Not specified</p><h3>Future Research</h3><p>More data</p>'
note_B2 ==
  <<"<","p",">","#","e","l","i","c","i","t","-","a","n","a","l","y","s","i","s"," ","#","d","e",
    "s","i","g","n",":","r","c","t","<","/","p",">","<","h","3",">","S","t","u","d","y"," ","D",
    "e","s","i","g","n","<","/","h","3",">","<","p",">","R","C","T","<","/","p",">","<","p",">",
    "N","o"," ","i","n","t","e","r","v","e","n","t","i","o","n",","," ","c","l","i","m","a","t",
    "e"," ","d","a","t","a","<","/","p",">","<","h","3",">","R","e","s","e","a","r","c","h"," ",
    "G","a","p","s","<","/","h","3",">","<","p",">","N","o","t"," ","s","p","e","c","i","f","i",
    "e","d","<","/","p",">","<","h","3",">","F","u","t","u","r","e"," ","R","e","s","e","a","r",
    "c","h","<","/","h","3",">","<","p",">","M","o","r","e"," ","d","a","t","a","<","/","p",">">>

\* 'Elicit Analysis of climate'
note_D4att ==
  <<"E","l","i","c","i","t"," ","A","n","a","l","y","s","i","s"," ","o","f"," ","c","l","i","m",
    "a","t","e">>

\* '<p>ElicitAnalysis climate notes</p>'
note_D4 ==
  <<"<","p",">","E","l","i","c","i","t","A","n","a","l","y","s","i","s"," ","c","l","i","m","a",
    "t","e"," ","n","o","t","e","s","<","/","p",">">>

\* '<p>#ELICIT-ANALYSIS</p><p>climate</p>'
note_E5 ==
  <<"<","p",">","#","E","L","I","C","I","T","-","A","N","A","L","Y","S","I","S","<","/","p",">",
    "<","p",">","c","l","i","m","a","t","e","<","/","p",">">>

\* '<h2>Elicit Analysis</h2><h3>Study Design</h3><p>Cohort &amp; panel</p>'
note_F6a ==
  <<"<","h","2",">","E","l","i","c","i","t"," ","A","n","a","l","y","s","i","s","<","/","h","2",
    ">","<","h","3",">","S","t","u","d","y"," ","D","e","s","i","g","n","<","/","h","3",">","<",
    "p",">","C","o","h","o","r","t"," ","&","a","m","p",";"," ","p","a","n","e","l","<","/","p",
    ">">>

\* '<h2>Elicit Analysis</h2><h3>Study Design</h3><p>RCT</p><p>climate</p><h3>Research Gaps</h3><p>Longer follow-up needed</p>'
note_F6b ==
  <<"<","h","2",">","E","l","i","c","i","t"," ","A","n","a","l","y","s","i","s","<","/","h","2",
    ">","<","h","3",">","S","t","u","d","y"," ","D","e","s","i","g","n","<","/","h","3",">","<",
    "p",">","R","C","T","<","/","p",">","<","p",">","c","l","i","m","a","t","e","<","/","p",">",
    "<","h","3",">","R","e","s","e","a","r","c","h"," ","G","a","p","s","<","/","h","3",">","<",
    "p",">","L","o","n","g","e","r"," ","f","o","l","l","o","w","-","u","p"," ","n","e","e","d",
    "e","d","<","/","p",">">>

\* '<p>elicit-analysis</p><h3>Study Design</h3><p>constructor</p><h3>Research Gaps</h3><p>0123456789</p><h3>Future Research</h3><p>Machine Learning at scale</p>'
note_G7 ==
  <<"<","p",">","e","l","i","c","i","t","-","a","n","a","l","y","s","i","s","<","/","p",">","<",
    "h","3",">","S","t","u","d","y"," ","D","e","s","i","g","n","<","/","h","3",">","<","p",">",
    "c","o","n","s","t","r","u","c","t","o","r","<","/","p",">","<","h","3",">","R","e","s","e",
    "a","r","c","h"," ","G","a","p","s","<","/","h","3",">","<","p",">","0","1","2","3","4","5",
    "6","7","8","9","<","/","p",">","<","h","3",">","F","u","t","u","r","e"," ","R","e","s","e",
    "a","r","c","h","<","/","h","3",">","<","p",">","M","a","c","h","i","n","e"," ","L","e","a",
    "r","n","i","n","g"," ","a","t"," ","s","c","a","l","e","<","/","p",">">>

\* 'Elicit Analysis <b>climate</b>\n<h3>Research Gaps</h3><p> Wider scope </p>'
note_H8 ==
  <<"E","l","i","c","i","t"," ","A","n","a","l","y","s","i","s"," ","<","b",">","c","l","i","m",
    "a","t","e","<","/","b",">","\n","<","h","3",">","R","e","s","e","a","r","c","h"," ","G",
    "a","p","s","<","/","h","3",">","<","p",">"," ","W","i","d","e","r"," ","s","c","o","p","e",
    " ","<","/","p",">">>

\* ------------------------------------------------------------------------
\* The Zotero library behind the server (the external provider's data)
\* ------------------------------------------------------------------------

NoteChild(key, content) ==
  [key |-> key, itemType |-> "note", note |-> << content >>]

\* an attachment; its data has no note field unless one is given
AttachmentChild(key, noteField) ==
  [key |-> key, itemType |-> "attachment", note |-> noteField]

ItemKeys == {"A1", "B2", "C3", "D4", "E5", "F6", "G7", "H8"}

\* the children the provider returns for /items/<key>/children, in its order
ChildrenOf ==
  [k \in ItemKeys |->
     CASE k = "A1" -> << NoteChild("NA1", note_A1) >>
       [] k = "B2" -> << AttachmentChild("PB2", <<>>), NoteChild("NB2", note_B2) >>
       [] k = "C3" -> << >>
       [] k = "D4" -> << AttachmentChild("PD4", << note_D4att >>),
                         NoteChild("ND4", note_D4) >>
       [] k = "E5" -> << NoteChild("NE5", note_E5) >>
       [] k = "F6" -> << NoteChild("NF6a", note_F6a), NoteChild("NF6b", note_F6b) >>
       [] k = "G7" -> << NoteChild("NG7", note_G7) >>
       [] k = "H8" -> << NoteChild("NH8", note_H8) >>]

\* the item object the provider returns for a key
ItemOf(k) == [key |-> k, title |-> << "Paper", k >>, creators |-> << >>]

\* sequences of distinct item keys of length at most n
RECURSIVE DistinctSeqs(_)
DistinctSeqs(n) ==
  IF n = 0 THEN { << >> }
  ELSE LET Shorter == DistinctSeqs(n - 1)
       IN  Shorter \cup
           {Append(s, k) : <<s, k>> \in
              {p \in Shorter \X ItemKeys :
                 /\ Len(p[1]) = n - 1
                 /\ \A i \in 1..Len(p[1]) : p[1][i] # p[2]}}

\* HTTP statuses of a failed Zotero response
FailStatuses == {403, 500}

\* ------------------------------------------------------------------------
\* Tool arguments the callers supply
\* ------------------------------------------------------------------------

\* an optional argument is << >> when omitted and << v >> when given; an
\* omitted string argument is the empty string (both are falsy in the source)
SearchQueries ==
  { [query |-> q_Climate, search_field |-> "", study_design |-> << >>,
     has_intervention |-> << >>],
    [query |-> q_Climate, search_field |-> "all", study_design |-> q_RCT,
     has_intervention |-> << >>],
    [query |-> q_Climate, search_field |-> "", study_design |-> << >>,
     has_intervention |-> << TRUE >>],
    [query |-> q_Climate, search_field |-> "all", study_design |-> << >>,
     has_intervention |-> << FALSE >>],
    [query |-> q_Climate, search_field |-> "summary", study_design |-> << >>,
     has_intervention |-> << >>],
    [query |-> q_cash, search_field |-> "intervention", study_design |-> << >>,
     has_intervention |-> << >>],
    [query |-> q_Climate, search_field |-> "region", study_design |-> << >>,
     has_intervention |-> << >>],
    [query |-> q_ResearchGaps, search_field |-> "all", study_design |-> << >>,
     has_intervention |-> << >>],
    [query |-> s_Intervention, search_field |-> "intervention",
     study_design |-> << >>, has_intervention |-> << >>] }

SearchLimits == { << >>, << 0 >>, << 1 >>, << 2 >> }

SearchArgs ==
  { [query |-> a.query, search_field |-> a.search_field,
     study_design |-> a.study_design, has_intervention |-> a.has_intervention,
     limit |-> l] : <<a, l>> \in SearchQueries \X SearchLimits }

\* ------------------------------------------------------------------------
\* State
\* ------------------------------------------------------------------------

VARIABLES
  collection,        \* keys of the items of the configured collection, in order
  pc,                \* "idle", "collection", "items", "children", "done" or "failed"
  call,              \* the tool call being served: [tool, args]
  requests,          \* upstream requests issued for this call, in order
  lastStatus,        \* HTTP status of the latest upstream response (0: none)
  items,             \* the items fetched for this call
  idx,               \* number of items whose children have arrived
  elicitNote,        \* children.find(...) of the latest loop body
  results,           \* searchByElicitMetadata: results
  summary,           \* getElicitSummary: summary
  detailedBreakdown, \* getElicitSummary: detailedBreakdown
  comparison,        \* compareMethodologies: comparison
  gaps,              \* extractResearchGaps: gaps
  response,          \* << >> or << the returned payload >>
  error,             \* << >> or << the McpError thrown to the caller >>
  runs,              \* how many times the current search call has been issued
  firstResponse,     \* the response of the first of these runs
  httpReq,           \* HTTP server: the request being served, or NoRequest
  httpRes,           \* HTTP server: << >> or << the response sent >>
  sseConnections,    \* HTTP server: ids of the registered SSE connections
  connectionCounter, \* HTTP server: the id given to the latest SSE connection
  sseEvents,         \* HTTP server: the events each SSE connection has emitted
  htmlArg,           \* normalizer: << >> (null / undefined) or << the string >>
  passes,            \* normalizer: the outputs of its successive applications
  suspended          \* the locals of a second invocation waiting at an await

vars == << collection, pc, call, requests, lastStatus, items, idx, elicitNote,
           results, summary, detailedBreakdown, comparison, gaps, response,
           error, runs, firstResponse, httpReq, httpRes, sseConnections,
           connectionCounter, sseEvents, htmlArg, passes, suspended >>

\* the argument and the outputs of the normalizer applied on its own
textVars == << htmlArg, passes >>

\* the state of the HTTP server
httpVars == << httpReq, httpRes, sseConnections, connectionCounter, sseEvents >>

Max2(a, b) == IF a >= b THEN a ELSE b
Min2(a, b) == IF a <= b THEN a ELSE b

ItemsEndpoint == << "collections", "items" >>
ChildrenEndpoint(k) == << "items", k, "children" >>

\* the items the provider returns for the collection with ?limit=n
ProviderItems(n) ==
  [i \in 1..Min2(n, Len(collection)) |-> ItemOf(collection[i])]

\* ------------------------------------------------------------------------
\* The elicitNote predicate and children.find
\* ------------------------------------------------------------------------

\* faulty variant: only the 'Elicit Analysis' marker is looked for
isElicitNoteTitleOnly(child) ==
  /\ child.itemType = "note"
  /\ child.note # << >>
  /\ includes(child.note[1], s_ElicitAnalysis)

\* faulty variant: the item type of the child is not looked at
isElicitNoteAnyType(child) ==
  /\ child.note # << >>
  /\ \/ includes(child.note[1], s_ElicitAnalysis)
     \/ includes(child.note[1], s_elicit_analysis)

\* child.data.itemType === 'note' && (child.data.note?.includes('Elicit Analysis')
\*                                   || child.data.note?.includes('elicit-analysis'))
isElicitNote(child) ==
  /\ child.itemType = "note"
  /\ child.note # << >>
  /\ \/ includes(child.note[1], s_ElicitAnalysis)
     \/ includes(child.note[1], s_elicit_analysis)

\* faulty variant: the first child of type note, whatever its content
findFirstNote(children) ==
  LET Hits == {i \in 1..Len(children) : children[i].itemType = "note"}
  IN  IF Hits = {} THEN << >> ELSE << children[SetMin(Hits)] >>

\* faulty variant: the last such child instead of the first
findLastElicitNote(children) ==
  LET Hits == {i \in 1..Len(children) : isElicitNote(children[i])}
  IN  IF Hits = {} THEN << >> ELSE << children[CHOOSE i \in Hits : \A j \in Hits : j <= i] >>

\* children.find(...): << >> for undefined, else << the first such child >>
findElicitNote(children) ==
  LET Hits == {i \in 1..Len(children) : isElicitNote(children[i])}
  IN  IF Hits = {} THEN << >> ELSE << children[SetMin(Hits)] >>

\* ------------------------------------------------------------------------
\* searchByElicitMetadata
\* ------------------------------------------------------------------------

fieldPatterns ==
  [f \in {"summary", "findings", "methodology", "limitations", "intervention",
          "research_question"} |->
     CASE f = "summary" -> s_summary
       [] f = "findings" -> s_main_findings
       [] f = "methodology" -> s_methodology
       [] f = "limitations" -> s_limitations
       [] f = "intervention" -> s_intervention
       [] f = "research_question" -> s_research_question]

NoMatch == [matchFound |-> FALSE, matchContext |-> << >>]

\* matchFound and matchContext for the lowercased note content
searchMatch(noteContent, args) ==
  LET queryLower == toLowerCase(args.query)
  IN  IF args.search_field = "all" \/ args.search_field = ""
      THEN IF includes(noteContent, queryLower)
           THEN LET index == indexOf(noteContent, queryLower)
                    start == Max2(0, index - 100)
                    end == Min2(Len(noteContent), index + 200)
                IN  [matchFound |-> TRUE,
                     matchContext |-> substring(noteContent, start, end)]
           ELSE NoMatch
      ELSE IF args.search_field \in DOMAIN fieldPatterns
           THEN LET matches == SectionMatchesFrom(noteContent,
                                  fieldPatterns[args.search_field], 1)
                    Hits == {i \in 1..Len(matches) : includes(matches[i], queryLower)}
                IN  IF Hits = {} THEN NoMatch
                    ELSE [matchFound |-> TRUE, matchContext |-> matches[SetMin(Hits)]]
           ELSE NoMatch

\* faulty variant: the has_intervention filter compares with the bare presence
\* of "intervention"
passesFiltersPresenceOnly(noteContent, args) ==
  /\ ~ (/\ args.study_design # << >>
        /\ ~ includes(noteContent, toLowerCase(args.study_design)))
  /\ \/ args.has_intervention = << >>
     \/ args.has_intervention[1] = includes(noteContent, s_intervention)

\* the two "continue" filters applied to a match
passesFilters(noteContent, args) ==
  /\ ~ (/\ args.study_design # << >>
        /\ ~ includes(noteContent, toLowerCase(args.study_design)))
  /\ \/ args.has_intervention = << >>
     \/ LET hasIntervention == /\ includes(noteContent, s_intervention)
                               /\ ~ includes(noteContent, s_no_intervention)
        IN  args.has_intervention[1] = hasIntervention

\* args.limit || 10
searchLimit(args) ==
  IF args.limit = << >> \/ args.limit[1] = 0 THEN 10 ELSE args.limit[1]

\* faulty variants: the new result replaces the list; the new result goes first
pushResultOverwrite(rs, r) == << r >>

pushResultFront(rs, r) == << r >> \o rs

\* results.push(...)
pushResult(rs, r) == Append(rs, r)

\* the loop body for one item, up to the limit test: "continued" when a
\* "continue" leaves the body early, "pushed" the result pushed, if any
searchLoopBody(item, children, args) ==
  LET found == findElicitNote(children)
  IN  IF found = << >> THEN [continued |-> TRUE, pushed |-> << >>]
      ELSE LET noteContent == toLowerCase(found[1].note[1])
               m == searchMatch(noteContent, args)
           IN  IF ~ m.matchFound THEN [continued |-> FALSE, pushed |-> << >>]
               ELSE IF ~ passesFilters(noteContent, args)
               THEN [continued |-> TRUE, pushed |-> << >>]
               ELSE [continued |-> FALSE,
                     pushed |-> << [key |-> item.key,
                                    title |-> item.title,
                                    authors |-> item.creators,
                                    match_context |->
                                      cleanHTMLForDisplay(m.matchContext),
                                    elicit_note_key |-> found[1].key] >>]

\* the loop body applied to each item of the library (evaluated once)
searchLoopBodyOf ==
  [k \in ItemKeys |->
     [a \in SearchQueries |-> searchLoopBody(ItemOf(k), ChildrenOf[k], a)]]

\* the search arguments without the limit
queryOf(args) ==
  [query |-> args.query, search_field |-> args.search_field,
   study_design |-> args.study_design, has_intervention |-> args.has_intervention]

\* results after the loop body of an item
searchResultsAfter(rs, body) ==
  IF body.pushed = << >> THEN rs ELSE pushResult(rs, body.pushed[1])

\* if (results.length >= (args.limit || 10)) break;
searchBreaks(rs, body, args) ==
  ~ body.continued /\ Len(rs) >= searchLimit(args)

searchResponse(rs, args) ==
  [query |-> args.query,
   search_field |-> IF args.search_field = "" THEN "all" ELSE args.search_field,
   total_matches |-> Len(rs),
   results |-> rs]

\* faulty variant: the provider's status is not put in the message
ZoteroApiErrorNoStatus(status) ==
  [code |-> "InternalError", prefix |-> "Tool execution failed",
   cause |-> "Zotero API error", status |-> 0]

\* McpError(InternalError, `Tool execution failed: ${error.message}`) for
\* Error(`Zotero API error: ${response.status} ...`)
ZoteroApiError(status) ==
  [code |-> "InternalError", prefix |-> "Tool execution failed",
   cause |-> "Zotero API error", status |-> status]

\* ------------------------------------------------------------------------
\* JavaScript objects used as maps
\* ------------------------------------------------------------------------

\* a number n, or the string made of the source text of the Object function
\* followed by n characters "1"
JsNumber(n) == << "number", n >>
JsFunctionText(n) == << "string", n >>

\* {}: no own property
EmptyObject == << >>

\* names every object literal inherits from Object.prototype as functions
ObjectPrototypeMethods ==
  { s_constructor, s_toString, s_valueOf, s_hasOwnProperty }

setProperty(obj, key, value) ==
  [x \in DOMAIN obj \cup {key} |-> IF x = key THEN value ELSE obj[x]]

\* obj[key] = (obj[key] || 0) + 1; a function or a string plus 1 is a string
countProperty(obj, key) ==
  setProperty(obj, key,
    IF key \in DOMAIN obj
    THEN IF obj[key][1] = "number" THEN JsNumber(obj[key][2] + 1)
                                   ELSE JsFunctionText(obj[key][2] + 1)
    ELSE IF key \in ObjectPrototypeMethods THEN JsFunctionText(1)
                                           ELSE JsNumber(1))

\* ------------------------------------------------------------------------
\* Field extraction shared by summary, comparison and gaps
\* ------------------------------------------------------------------------

\* m = noteContent.match(/<label>.*?<p[^>]*>(.*?)<\/p>/i);
\* m ? << cleanHTMLForDisplay(m[1]) >> : << >>
extractParagraph(noteContent, label) ==
  LET m == ParagraphMatches(noteContent, label)
  IN  IF m = << >> THEN << >> ELSE << cleanHTMLForDisplay(m[1]) >>

ParagraphLabels ==
  { s_StudyDesign, s_Region, s_StatisticalTechniques, s_Intervention,
    s_OutcomeMeasured, s_ResearchGaps, s_FutureResearch }

\* the Elicit note children.find returns for each item of the library, and
\* its extracted paragraphs (evaluated once)
elicitNoteOf == [k \in ItemKeys |-> findElicitNote(ChildrenOf[k])]

paragraphOf ==
  [k \in {x \in ItemKeys : elicitNoteOf[x] # << >>} |->
     [l \in ParagraphLabels |-> extractParagraph(elicitNoteOf[k][1].note[1], l)]]

\* ------------------------------------------------------------------------
\* getElicitSummary
\* ------------------------------------------------------------------------

analysisFields ==
  << s_Summary, s_MainFindings, s_Methodology, s_Limitations,
     s_ResearchQuestion, s_Intervention, s_StatisticalTechniques >>

\* analysisFields.filter(field => noteContent.toLowerCase().includes(field.toLowerCase()))
presentFields(noteContent) ==
  LET lower == toLowerCase(noteContent)
  IN  SelectSeq(analysisFields, LAMBDA field : includes(lower, toLowerCase(field)))

presentFieldsOf ==
  [k \in {x \in ItemKeys : elicitNoteOf[x] # << >>} |->
     presentFields(elicitNoteOf[k][1].note[1])]

newSummary(n) ==
  [total_papers |-> n, papers_with_elicit |-> 0,
   analysis_coverage |-> EmptyObject, study_designs |-> EmptyObject,
   regions |-> EmptyObject, methodologies |-> EmptyObject]

\* presentFields.forEach(field => coverage[field] = (coverage[field] || 0) + 1)
RECURSIVE countFields(_, _)
countFields(coverage, fields) ==
  IF fields = << >> THEN coverage
  ELSE countFields(countProperty(coverage, Head(fields)), Tail(fields))

\* the summary after the loop body of an item with an Elicit note
summaryAfter(s, design, region, fields) ==
  [s EXCEPT !.papers_with_elicit = @ + 1,
            !.study_designs = IF design = << >> THEN @ ELSE countProperty(@, design[1]),
            !.regions = IF region = << >> THEN @ ELSE countProperty(@, region[1]),
            !.analysis_coverage = countFields(@, fields)]

breakdownEntry(item, fields, note) ==
  [paper_key |-> item.key, paper_title |-> item.title,
   analysis_fields |-> fields, note_key |-> note.key]

\* a number that JSON cannot write: NaN
JsNaN == << "NaN", 0 >>

JsNull == << "null", 0 >>

\* the percentage truncated instead of rounded
coveragePercentageFloor(s) ==
  IF s.total_papers = 0 THEN JsNaN
  ELSE JsNumber((100 * s.papers_with_elicit) \div s.total_papers)

\* Math.round((papers_with_elicit / total_papers) * 100); 0 / 0 is NaN and
\* Math.round(NaN) is NaN
coveragePercentage(s) ==
  IF s.total_papers = 0 THEN JsNaN
  ELSE JsNumber((200 * s.papers_with_elicit + s.total_papers)
                  \div (2 * s.total_papers))

\* JSON.stringify of a number: NaN is written as null
JSONstringifyNumber(v) == IF v = JsNaN THEN JsNull ELSE v

\* the text returned: JSON.stringify(result, null, 2)
summaryResponse(s, includeDetails, breakdown) ==
  [summary |-> s,
   coverage_percentage |-> JSONstringifyNumber(coveragePercentage(s)),
   detailed_breakdown |-> IF includeDetails THEN << breakdown >> ELSE << >>]

\* ------------------------------------------------------------------------
\* compareMethodologies
\* ------------------------------------------------------------------------

\* faulty variant: every case defaults to 'Not specified'
focusFieldOneDefault ==
  [f \in {"study_design", "statistical_techniques", "interventions", "outcomes"} |->
     CASE f = "study_design" -> [label |-> s_StudyDesign, missing |-> s_NotSpecified]
       [] f = "statistical_techniques" ->
            [label |-> s_StatisticalTechniques, missing |-> s_NotSpecified]
       [] f = "interventions" -> [label |-> s_Intervention, missing |-> s_NotSpecified]
       [] f = "outcomes" -> [label |-> s_OutcomeMeasured, missing |-> s_NotSpecified]]

\* the switch on focusArea: the field and the default of each case
focusField ==
  [f \in {"study_design", "statistical_techniques", "interventions", "outcomes"} |->
     CASE f = "study_design" -> [label |-> s_StudyDesign, missing |-> s_NotSpecified]
       [] f = "statistical_techniques" ->
            [label |-> s_StatisticalTechniques, missing |-> s_NotSpecified]
       [] f = "interventions" -> [label |-> s_Intervention, missing |-> s_NoIntervention]
       [] f = "outcomes" -> [label |-> s_OutcomeMeasured, missing |-> s_NotSpecified]]

\* extractedValue for an item with an Elicit note; '' when no case applies
extractedValue(k, focusArea) ==
  IF focusArea \in DOMAIN focusField
  THEN LET m == paragraphOf[k][focusField[focusArea].label]
       IN  IF m = << >> THEN focusField[focusArea].missing ELSE m[1]
  ELSE << >>

\* if (!comparison[v]) comparison[v] = []; comparison[v].push(...) throws a
\* TypeError when comparison[v] is an inherited method
pushThrows(c, v) == v \notin DOMAIN c /\ v \in ObjectPrototypeMethods

comparisonAfter(c, v, item) ==
  setProperty(c, v,
    Append(IF v \in DOMAIN c THEN c[v] ELSE << >>,
           [key |-> item.key, title |-> item.title, authors |-> item.creators]))

\* Object.values(comparison).flat().length
RECURSIVE flatLength(_, _)
flatLength(c, keys) ==
  IF keys = {} THEN 0
  ELSE LET k == CHOOSE x \in keys : TRUE
       IN  Len(c[k]) + flatLength(c, keys \ {k})

compareResponse(c, focusArea) ==
  [focus_area |-> focusArea,
   comparison_results |-> c,
   unique_approaches |-> Cardinality(DOMAIN c),
   total_papers_analyzed |-> flatLength(c, DOMAIN c)]

\* McpError(InternalError, `Tool execution failed: ${error.message}`) for the
\* TypeError "comparison[extractedValue].push is not a function"
PushTypeError ==
  [code |-> "InternalError", prefix |-> "Tool execution failed",
   cause |-> "TypeError", status |-> 0]

\* ------------------------------------------------------------------------
\* extractResearchGaps
\* ------------------------------------------------------------------------

\* faulty variant: a text of exactly 10 characters is kept
informativeFrom10(text) ==
  text # << >> /\ text # s_NotSpecified /\ Len(text) >= 10

\* gapText && gapText !== 'Not specified' && gapText.length > 10
informative(text) ==
  text # << >> /\ text # s_NotSpecified /\ Len(text) > 10

\* the records the loop body pushes for an item with an Elicit note
gapRecords(item, gapsMatch, futureMatch) ==
  (IF gapsMatch # << >> /\ informative(gapsMatch[1])
   THEN << [paper_key |-> item.key, paper_title |-> item.title,
            research_gap |-> gapsMatch[1], type |-> << >>] >>
   ELSE << >>)
  \o
  (IF futureMatch # << >> /\ informative(futureMatch[1])
   THEN << [paper_key |-> item.key, paper_title |-> item.title,
            research_gap |-> futureMatch[1], type |-> << "future_research" >>] >>
   ELSE << >>)

keywords ==
  << s_machine_learning, s_intervention, s_longitudinal, s_causal,
     s_randomized, s_sample_size, s_methodology >>

\* faulty variant: the gap text is not lowercased
relatedGapsCaseSensitive(gs, keyword) ==
  SelectSeq(gs, LAMBDA gap : includes(gap.research_gap, keyword))

\* gaps.filter(gap => gap.research_gap.toLowerCase().includes(keyword))
relatedGaps(gs, keyword) ==
  SelectSeq(gs, LAMBDA gap : includes(toLowerCase(gap.research_gap), keyword))

\* grouped: a property for each keyword with a non-empty filter result
groupGaps(gs) ==
  LET Present == {i \in 1..Len(keywords) : relatedGaps(gs, keywords[i]) # << >>}
  IN  [kw \in {keywords[i] : i \in Present} |-> relatedGaps(gs, kw)]

gapsResponse(gs, groupSimilar) ==
  [total_gaps_identified |-> Len(gs),
   gaps |-> gs,
   grouped_gaps |-> IF groupSimilar THEN << groupGaps(gs) >> ELSE << >>]

\* ------------------------------------------------------------------------
\* Arguments of the other tools
\* ------------------------------------------------------------------------

\* include_details: omitted, true or false
SummaryArgs == { [include_details |-> d] : d \in { << >>, << TRUE >>, << FALSE >> } }

\* focus_area ("" when omitted) and limit
CompareArgs ==
  { [focus_area |-> f, limit |-> l] :
      <<f, l>> \in {"", "study_design", "statistical_techniques", "interventions",
                    "outcomes", "sample"} \X { << >>, << 1 >> } }

\* group_similar: omitted, true or false
GapsArgs == { [group_similar |-> g] : g \in { << >>, << TRUE >>, << FALSE >> } }

\* args?.include_details || false
includeDetailsOf(args) == args.include_details # << >> /\ args.include_details[1]

\* args?.focus_area || "study_design"
focusAreaOf(args) == IF args.focus_area = "" THEN "study_design" ELSE args.focus_area

\* args?.limit || 20
compareLimitOf(args) ==
  IF args.limit = << >> \/ args.limit[1] = 0 THEN 20 ELSE args.limit[1]

\* args?.group_similar !== false
groupSimilarOf(args) == args.group_similar = << >> \/ args.group_similar[1]

\* ------------------------------------------------------------------------
\* Initial state: a server just constructed, in front of some library
\* ------------------------------------------------------------------------

NoCall == [tool |-> "none", args |-> << >>]

\* no HTTP request is being served
NoRequest ==
  [route |-> "none", xApiKey |-> << >>, api_key |-> << >>, key |-> << >>,
   param |-> << >>, id |-> << >>]

\* the locals of an invocation that has not started
NoInvocation ==
  [who |-> "none", interleaved |-> FALSE, pc |-> "idle", call |-> NoCall,
   requests |-> << >>, lastStatus |-> 0, items |-> << >>, idx |-> 0,
   elicitNote |-> << >>, results |-> << >>, summary |-> newSummary(0),
   detailedBreakdown |-> << >>, comparison |-> EmptyObject, gaps |-> << >>,
   response |-> << >>, error |-> << >>]

\* no request, no connection, no call in progress
ServerInit ==
  /\ suspended = NoInvocation
  /\ httpReq = NoRequest
  /\ httpRes = << >>
  /\ sseConnections = {}
  /\ connectionCounter = 0
  /\ sseEvents = << >>
  /\ pc = "idle"
  /\ call = NoCall
  /\ requests = << >>
  /\ lastStatus = 0
  /\ items = << >>
  /\ idx = 0
  /\ elicitNote = << >>
  /\ results = << >>
  /\ summary = newSummary(0)
  /\ detailedBreakdown = << >>
  /\ comparison = EmptyObject
  /\ gaps = << >>
  /\ response = << >>
  /\ error = << >>
  /\ runs = 0
  /\ firstResponse = << >>

Init ==
  /\ collection \in DistinctSeqs(MaxItems)
  /\ ServerInit
  /\ htmlArg = << >>
  /\ passes = << >>

\* ------------------------------------------------------------------------
\* The CallTool handler: dispatch and the first upstream request
\* ------------------------------------------------------------------------

\* every tool starts with makeZoteroRequest(`/collections/<key>/items`)
BeginCall(tool, args) ==
  /\ call' = [tool |-> tool, args |-> args]
  /\ pc' = "items"
  /\ requests' = << ItemsEndpoint >>
  /\ lastStatus' = 0
  /\ items' = << >>
  /\ idx' = 0
  /\ elicitNote' = << >>
  /\ results' = << >>
  /\ summary' = newSummary(0)
  /\ detailedBreakdown' = << >>
  /\ comparison' = EmptyObject
  /\ gaps' = << >>
  /\ response' = << >>
  /\ error' = << >>
  /\ UNCHANGED collection

\* case "search_by_elicit_metadata": searchByElicitMetadata(args)
CallSearch ==
  /\ pc = "idle"
  /\ \E args \in SearchArgs : BeginCall("search", args)
  /\ runs' = 1
  /\ firstResponse' = << >>
  /\ UNCHANGED << httpVars, textVars, suspended >>

\* the caller issues the search call it has just been answered once more
RepeatSearch ==
  /\ pc = "done"
  /\ call.tool = "search"
  /\ runs < MaxRuns
  /\ BeginCall("search", call.args)
  /\ runs' = runs + 1
  /\ firstResponse' = IF runs = 1 THEN response ELSE firstResponse
  /\ UNCHANGED << httpVars, textVars, suspended >>

\* case "get_elicit_summary": getElicitSummary(args?.include_details || false)
CallSummary ==
  /\ pc = "idle"
  /\ \E args \in SummaryArgs : BeginCall("summary", args)
  /\ runs' = 1
  /\ firstResponse' = << >>
  /\ UNCHANGED << httpVars, textVars, suspended >>

\* case "compare_methodologies": compareMethodologies(focus_area, limit)
CallCompare ==
  /\ pc = "idle"
  /\ \E args \in CompareArgs : BeginCall("compare", args)
  /\ runs' = 1
  /\ firstResponse' = << >>
  /\ UNCHANGED << httpVars, textVars, suspended >>

\* case "extract_research_gaps": extractResearchGaps(group_similar !== false)
CallGaps ==
  /\ pc = "idle"
  /\ \E args \in GapsArgs : BeginCall("gaps", args)
  /\ runs' = 1
  /\ firstResponse' = << >>
  /\ UNCHANGED << httpVars, textVars, suspended >>

\* tool names that no case of the switch handles
UnknownTools == {"delete_item", "get_elicit_summaries"}

\* default: throw new McpError(ErrorCode.MethodNotFound, `Unknown tool: ${name}`)
UnknownToolThrown ==
  [code |-> "MethodNotFound", prefix |-> "", cause |-> "Unknown tool", status |-> 0]

\* catch (error) { throw new McpError(ErrorCode.InternalError,
\*                                    `Tool execution failed: ${error.message}`) }
handlerCatch(thrown) ==
  [code |-> "InternalError", prefix |-> "Tool execution failed",
   cause |-> thrown.cause, status |-> thrown.status]

\* a tools/call request naming a tool outside the switch: the default branch
\* throws inside the try, and the catch of the handler rethrows
CallUnknownTool ==
  /\ pc = "idle"
  /\ \E name \in UnknownTools : call' = [tool |-> name, args |-> << >>]
  /\ pc' = "failed"
  /\ error' = << handlerCatch(UnknownToolThrown) >>
  /\ runs' = 1
  /\ UNCHANGED << collection, requests, lastStatus, items, idx, elicitNote,
                  results, summary, detailedBreakdown, comparison, gaps,
                  response, firstResponse >>
  /\ UNCHANGED << httpVars, textVars, suspended >>

\* the limit query parameter of the items request of each tool
itemsLimit ==
  CASE call.tool = "search" -> 100
    [] call.tool = "summary" -> 100
    [] call.tool = "compare" -> compareLimitOf(call.args)
    [] call.tool = "gaps" -> 50

\* the value each tool returns after its loop
finalResponse(rs, s, breakdown, c, gs) ==
  CASE call.tool = "search" -> searchResponse(rs, call.args)
    [] call.tool = "summary" ->
         summaryResponse(s, includeDetailsOf(call.args), breakdown)
    [] call.tool = "compare" -> compareResponse(c, focusAreaOf(call.args))
    [] call.tool = "gaps" -> gapsResponse(gs, groupSimilarOf(call.args))

\* the items request is answered 2xx: the loop starts, or the tool returns
\* at once when there is no item
ItemsOk ==
  /\ pc = "items"
  /\ lastStatus' = 200
  /\ LET fetched == ProviderItems(itemsLimit)
         s == IF call.tool = "summary" THEN newSummary(Len(fetched)) ELSE summary
     IN  /\ items' = fetched
         /\ summary' = s
         /\ IF Len(fetched) = 0
            THEN /\ pc' = "done"
                 /\ response' = << finalResponse(results, s, detailedBreakdown,
                                                 comparison, gaps) >>
                 /\ UNCHANGED requests
            ELSE /\ pc' = "children"
                 /\ requests' = Append(requests, ChildrenEndpoint(fetched[1].key))
                 /\ UNCHANGED response
  /\ UNCHANGED << collection, call, idx, elicitNote, results, detailedBreakdown,
                  comparison, gaps, error, runs, firstResponse >>
  /\ UNCHANGED << httpVars, textVars, suspended >>

\* an upstream request is answered with !response.ok: makeZoteroRequest
\* throws, the handler's catch rethrows it as an McpError
RequestFails ==
  /\ pc \in {"collection", "items", "children", "membership", "item",
             "itemChildren"}
  /\ \E status \in FailStatuses :
       /\ lastStatus' = status
       /\ error' = << ZoteroApiError(status) >>
  /\ pc' = "failed"
  /\ UNCHANGED << collection, call, requests, items, idx, elicitNote, results,
                  summary, detailedBreakdown, comparison, gaps, response, runs,
                  firstResponse >>
  /\ UNCHANGED << httpVars, textVars, suspended >>

\* after the loop body of item idx + 1 has run to its end: leave the loop and
\* return, or request the children of the next item
\* faulty variant: the loop asks again for the children of the item it has
\* just handled
AfterItemSameItem(breaks, rs, s, breakdown, c, gs) ==
  /\ idx' = idx + 1
  /\ lastStatus' = 200
  /\ IF breaks \/ idx + 1 = Len(items)
     THEN /\ pc' = "done"
          /\ response' = << finalResponse(rs, s, breakdown, c, gs) >>
          /\ UNCHANGED requests
     ELSE /\ pc' = "children"
          /\ requests' = Append(requests, ChildrenEndpoint(items[idx + 1].key))
          /\ UNCHANGED response

AfterItem(breaks, rs, s, breakdown, c, gs) ==
  /\ idx' = idx + 1
  /\ lastStatus' = 200
  /\ IF breaks \/ idx + 1 = Len(items)
     THEN /\ pc' = "done"
          /\ response' = << finalResponse(rs, s, breakdown, c, gs) >>
          /\ UNCHANGED requests
     ELSE /\ pc' = "children"
          /\ requests' = Append(requests, ChildrenEndpoint(items[idx + 2].key))
          /\ UNCHANGED response

\* searchByElicitMetadata: the children of item idx + 1 arrive
SearchItem ==
  /\ pc = "children"
  /\ call.tool = "search"
  /\ LET item == items[idx + 1]
         body == searchLoopBodyOf[item.key][queryOf(call.args)]
         rs == searchResultsAfter(results, body)
     IN  /\ elicitNote' = elicitNoteOf[item.key]
         /\ results' = rs
         /\ AfterItem(searchBreaks(rs, body, call.args), rs, summary,
                      detailedBreakdown, comparison, gaps)
  /\ UNCHANGED << collection, call, items, summary, detailedBreakdown,
                  comparison, gaps, error, runs, firstResponse >>
  /\ UNCHANGED << httpVars, textVars, suspended >>

\* getElicitSummary: the children of item idx + 1 arrive
SummaryItem ==
  /\ pc = "children"
  /\ call.tool = "summary"
  /\ LET item == items[idx + 1]
         note == elicitNoteOf[item.key]
         fields == IF note = << >> THEN << >> ELSE presentFieldsOf[item.key]
         s == IF note = << >> THEN summary
              ELSE summaryAfter(summary, paragraphOf[item.key][s_StudyDesign],
                                paragraphOf[item.key][s_Region], fields)
         breakdown == IF note # << >> /\ includeDetailsOf(call.args)
                      THEN Append(detailedBreakdown,
                                  breakdownEntry(item, fields, note[1]))
                      ELSE detailedBreakdown
     IN  /\ elicitNote' = note
         /\ summary' = s
         /\ detailedBreakdown' = breakdown
         /\ AfterItem(FALSE, results, s, breakdown, comparison, gaps)
  /\ UNCHANGED << collection, call, items, results, comparison, gaps, error,
                  runs, firstResponse >>
  /\ UNCHANGED << httpVars, textVars, suspended >>

\* compareMethodologies: the children of item idx + 1 arrive
CompareItem ==
  /\ pc = "children"
  /\ call.tool = "compare"
  /\ LET item == items[idx + 1]
         note == elicitNoteOf[item.key]
         v == extractedValue(item.key, focusAreaOf(call.args))
     IN  /\ elicitNote' = note
         /\ IF note = << >>
            THEN /\ AfterItem(FALSE, results, summary, detailedBreakdown,
                              comparison, gaps)
                 /\ UNCHANGED << comparison, error >>
            ELSE IF pushThrows(comparison, v)
            THEN /\ pc' = "failed"
                 /\ error' = << PushTypeError >>
                 /\ idx' = idx + 1
                 /\ lastStatus' = 200
                 /\ UNCHANGED << requests, response, comparison >>
            ELSE LET c == comparisonAfter(comparison, v, item)
                 IN  /\ comparison' = c
                     /\ AfterItem(FALSE, results, summary, detailedBreakdown,
                                  c, gaps)
                     /\ UNCHANGED error
  /\ UNCHANGED << collection, call, items, results, summary, detailedBreakdown,
                  gaps, runs, firstResponse >>
  /\ UNCHANGED << httpVars, textVars, suspended >>

\* extractResearchGaps: the children of item idx + 1 arrive
GapsItem ==
  /\ pc = "children"
  /\ call.tool = "gaps"
  /\ LET item == items[idx + 1]
         note == elicitNoteOf[item.key]
         gs == IF note = << >> THEN gaps
               ELSE gaps \o gapRecords(item, paragraphOf[item.key][s_ResearchGaps],
                                       paragraphOf[item.key][s_FutureResearch])
     IN  /\ elicitNote' = note
         /\ gaps' = gs
         /\ AfterItem(FALSE, results, summary, detailedBreakdown, comparison, gs)
  /\ UNCHANGED << collection, call, items, results, summary, detailedBreakdown,
                  comparison, error, runs, firstResponse >>
  /\ UNCHANGED << httpVars, textVars, suspended >>

\* the handler's promise settles: the response or the error goes to the
\* client and the locals of the call are gone
Deliver ==
  /\ pc \in {"done", "failed"}
  /\ pc' = "idle"
  /\ call' = NoCall
  /\ requests' = << >>
  /\ lastStatus' = 0
  /\ items' = << >>
  /\ idx' = 0
  /\ elicitNote' = << >>
  /\ results' = << >>
  /\ summary' = newSummary(0)
  /\ detailedBreakdown' = << >>
  /\ comparison' = EmptyObject
  /\ gaps' = << >>
  /\ response' = << >>
  /\ error' = << >>
  /\ runs' = 0
  /\ firstResponse' = << >>
  /\ UNCHANGED collection
  /\ UNCHANGED << httpVars, textVars, suspended >>

\* ------------------------------------------------------------------------
\* getItemDetails
\* ------------------------------------------------------------------------

\* the items of one page of the provider when the request sends no limit
\* (the Zotero Web API pages its listings: 25 items by default), scaled to
\* the collections of the model
ProviderDefaultLimit == 2

\* item_key and include_children (FALSE when omitted)
DetailsArgs ==
  { [item_key |-> k, include_children |-> c] : <<k, c>> \in ItemKeys \X BOOLEAN }

ItemEndpoint(k) == << "items", k >>

\* Error(`Item ${itemKey} not found in the configured collection`), rethrown
\* by the catch of the handler
ItemNotInCollection ==
  handlerCatch([code |-> "Error", prefix |-> "",
                cause |-> "Item not found in the configured collection",
                status |-> 0])

\* the JSON object getItemDetails returns
itemDetails(item, children) ==
  [key |-> item.key, title |-> item.title, creators |-> item.creators,
   children |-> [i \in 1..Len(children) |->
                   [key |-> children[i].key, type |-> children[i].itemType,
                    note |-> children[i].note]]]

\* case "get_item_details": the collection's items are requested first,
\* without a limit parameter
CallDetails ==
  /\ pc = "idle"
  /\ \E args \in DetailsArgs : call' = [tool |-> "details", args |-> args]
  /\ pc' = "membership"
  /\ requests' = << ItemsEndpoint >>
  /\ runs' = 1
  /\ UNCHANGED << collection, lastStatus, items, idx, elicitNote, results,
                  summary, detailedBreakdown, comparison, gaps, response, error,
                  firstResponse >>
  /\ UNCHANGED << httpVars, textVars, suspended >>

\* collectionItems.find(item => item.key === itemKey): throw, or request the item
MembershipOk ==
  /\ pc = "membership"
  /\ lastStatus' = 200
  /\ LET collectionItems == ProviderItems(ProviderDefaultLimit)
         itemInCollection ==
           \E i \in 1..Len(collectionItems) :
              collectionItems[i].key = call.args.item_key
     IN  /\ items' = collectionItems
         /\ IF ~ itemInCollection
            THEN /\ pc' = "failed"
                 /\ error' = << ItemNotInCollection >>
                 /\ UNCHANGED requests
            ELSE /\ pc' = "item"
                 /\ requests' = Append(requests, ItemEndpoint(call.args.item_key))
                 /\ UNCHANGED error
  /\ UNCHANGED << collection, call, idx, elicitNote, results, summary,
                  detailedBreakdown, comparison, gaps, response, runs,
                  firstResponse >>
  /\ UNCHANGED << httpVars, textVars, suspended >>

\* /items/<key> is answered: request the children when asked to, or return
ItemOk ==
  /\ pc = "item"
  /\ lastStatus' = 200
  /\ IF call.args.include_children
     THEN /\ pc' = "itemChildren"
          /\ requests' = Append(requests, ChildrenEndpoint(call.args.item_key))
          /\ UNCHANGED response
     ELSE /\ pc' = "done"
          /\ response' = << itemDetails(ItemOf(call.args.item_key), << >>) >>
          /\ UNCHANGED requests
  /\ UNCHANGED << collection, call, items, idx, elicitNote, results, summary,
                  detailedBreakdown, comparison, gaps, error, runs,
                  firstResponse >>
  /\ UNCHANGED << httpVars, textVars, suspended >>

\* /items/<key>/children is answered: return the details with the children
ItemChildrenOk ==
  /\ pc = "itemChildren"
  /\ lastStatus' = 200
  /\ pc' = "done"
  /\ response' = << itemDetails(ItemOf(call.args.item_key),
                                ChildrenOf[call.args.item_key]) >>
  /\ UNCHANGED << collection, call, requests, items, idx, elicitNote, results,
                  summary, detailedBreakdown, comparison, gaps, error, runs,
                  firstResponse >>
  /\ UNCHANGED << httpVars, textVars, suspended >>

Next ==
  \/ CallSearch
  \/ RepeatSearch
  \/ CallSummary
  \/ CallCompare
  \/ CallGaps
  \/ CallUnknownTool
  \/ CallDetails
  \/ MembershipOk
  \/ ItemOk
  \/ ItemChildrenOk
  \/ ItemsOk
  \/ RequestFails
  \/ SearchItem
  \/ SummaryItem
  \/ CompareItem
  \/ GapsItem
  \/ Deliver

Spec == Init /\ [][Next]_vars

\* ------------------------------------------------------------------------
\* The stdio server when every upstream request is answered
\* ------------------------------------------------------------------------

\* collections of the runs checked for termination
MaxLiveItems == 2

\* fetch() settles: the awaiting tool goes on with the response or throws
UpstreamAnswers ==
  \/ ItemsOk
  \/ RequestFails
  \/ SearchItem
  \/ SummaryItem
  \/ CompareItem
  \/ GapsItem
  \/ MembershipOk
  \/ ItemOk
  \/ ItemChildrenOk

FairInit == Init /\ Len(collection) <= MaxLiveItems

\* every awaited upstream request eventually returns or fails, and the
\* continuation of the await then runs
FairSpec == FairInit /\ [][Next]_vars /\ WF_vars(UpstreamAnswers)

\* ------------------------------------------------------------------------
\* The HTTP server with SSE: one Express application in front of the same
\* ZoteroSingleCollectionMCPServer instance
\* ------------------------------------------------------------------------

\* the size of the collection behind the HTTP server, and the number of SSE
\* connections opened
MaxHttpItems == 1

MaxConnections == 2

\* process.env.MCP_API_KEY || 'mcp-zotero-public-key-2024'
API_KEY == "mcp-zotero-public-key-2024"

\* a key a client may send: none, a wrong one, the configured one
KeyValues == { << >>, << "wrong-key" >>, << API_KEY >> }

\* the routes, with the query parameter or the JSON-RPC method each is sent;
\* << "tools/call" >> is a tools/call request without params
RouteParams ==
  [r \in {"GET /health", "GET /", "GET /sse", "POST /sse", "GET /collection/info",
          "GET /analysis/gaps"} |->
     CASE r = "POST /sse" ->
            { << "tools/list" >>, << "tools/call", "get_collection_info" >>,
              << "tools/call", "extract_research_gaps" >>, << "tools/call" >>,
              << "ping" >> }
       [] r = "GET /analysis/gaps" -> { << >>, << "true" >>, << "false" >> }
       [] OTHER -> { << >> }]

\* the id member of a JSON-RPC request body (<< >>: the body has none)
RequestIds == { JsNumber(0), JsNumber(7) }

HttpRequests ==
  UNION { [route : {r}, xApiKey : KeyValues, api_key : KeyValues, key : KeyValues,
           param : RouteParams[r],
           id : IF r = "POST /sse" THEN RequestIds ELSE { << >> }] :
          r \in DOMAIN RouteParams }

\* req.headers['x-api-key'] || req.query.api_key || req.query.key
apiKeyOf(req) ==
  IF req.xApiKey # << >> THEN req.xApiKey
  ELSE IF req.api_key # << >> THEN req.api_key
  ELSE req.key

\* checkAuth calls next(): !(!apiKey || apiKey !== API_KEY)
checkAuth(req) == apiKeyOf(req) # << >> /\ apiKeyOf(req)[1] = API_KEY

\* the server serves no request
Idle == pc = "idle" /\ httpReq = NoRequest

\* the request the server takes up
Arrives(req) == httpReq' = req

\* res.status(...).json(...) by the middleware or handler named in by
Sends(status, by, body) ==
  httpRes' = << [status |-> status, by |-> by, body |-> body] >>

CollectionEndpoint == << "collections" >>

toolVars ==
  << collection, pc, call, requests, lastStatus, items, idx, elicitNote, results,
     summary, detailedBreakdown, comparison, gaps, response, error, runs,
     firstResponse >>

\* app.use(checkAuth): a request without the configured key is answered 401,
\* whatever its route
Unauthorized ==
  /\ Idle
  /\ \E req \in HttpRequests :
       /\ ~ checkAuth(req)
       /\ Arrives(req)
  /\ Sends(401, "checkAuth", << "Unauthorized" >>)
  /\ UNCHANGED << toolVars, sseConnections, connectionCounter, sseEvents >>
  /\ UNCHANGED << textVars, suspended >>

\* app.get('/health')
GetHealth ==
  /\ Idle
  /\ \E req \in HttpRequests :
       /\ checkAuth(req)
       /\ req.route = "GET /health"
       /\ Arrives(req)
  /\ Sends(200, "GET /health", << "healthy", Cardinality(sseConnections) >>)
  /\ UNCHANGED << toolVars, sseConnections, connectionCounter, sseEvents >>
  /\ UNCHANGED << textVars, suspended >>

\* app.get('/'): the API documentation
GetRoot ==
  /\ Idle
  /\ \E req \in HttpRequests :
       /\ checkAuth(req)
       /\ req.route = "GET /"
       /\ Arrives(req)
  /\ Sends(200, "GET /",
           << "API key required for /collection/* and /analysis/* endpoints only" >>)
  /\ UNCHANGED << toolVars, sseConnections, connectionCounter, sseEvents >>
  /\ UNCHANGED << textVars, suspended >>

\* app.get('/sse'): the connection is registered under a fresh id and the
\* initialized event is written
GetSse ==
  /\ Idle
  /\ connectionCounter < MaxConnections
  /\ \E req \in HttpRequests :
       /\ checkAuth(req)
       /\ req.route = "GET /sse"
       /\ Arrives(req)
  /\ connectionCounter' = connectionCounter + 1
  /\ sseConnections' = sseConnections \cup {connectionCounter + 1}
  /\ sseEvents' = Append(sseEvents, {})
  /\ Sends(200, "GET /sse", << "initialized", connectionCounter + 1 >>)
  /\ UNCHANGED toolVars
  /\ UNCHANGED << textVars, suspended >>

\* the request of SSE connection id emits the event: each event once
Emits(id, event) ==
  /\ event \notin sseEvents[id]
  /\ sseEvents' = [sseEvents EXCEPT ![id] = @ \cup {event}]

\* req.on('close', ...): sseConnections.delete(connectionId)
SseClose ==
  /\ \E id \in 1..connectionCounter :
       /\ Emits(id, "close")
       /\ sseConnections' = sseConnections \ {id}
  /\ UNCHANGED << toolVars, httpReq, httpRes, connectionCounter >>
  /\ UNCHANGED << textVars, suspended >>

\* faulty variant: the error handler only logs
SseErrorLogged ==
  /\ \E id \in 1..connectionCounter : Emits(id, "error")
  /\ UNCHANGED << toolVars, httpReq, httpRes, connectionCounter, sseConnections >>
  /\ UNCHANGED << textVars, suspended >>

\* req.on('error', ...): sseConnections.delete(connectionId)
SseError ==
  /\ \E id \in 1..connectionCounter :
       /\ Emits(id, "error")
       /\ sseConnections' = sseConnections \ {id}
  /\ UNCHANGED << toolVars, httpReq, httpRes, connectionCounter >>
  /\ UNCHANGED << textVars, suspended >>

\* mcpServer.getCollectionInfo(): the upstream request for the collection
BeginInfo ==
  /\ call' = [tool |-> "info", args |-> << >>]
  /\ pc' = "collection"
  /\ requests' = << CollectionEndpoint >>
  /\ UNCHANGED << collection, lastStatus, items, idx, elicitNote, results,
                  summary, detailedBreakdown, comparison, gaps, response, error,
                  runs, firstResponse >>

\* the tools the POST /sse switch knows
SseTools ==
  { "get_collection_info", "list_items", "search_items", "get_item_details",
    "get_collection_overview", "search_by_analysis_metadata" }

\* req.body.id || null
orNull(id) == IF id = << >> \/ id = JsNumber(0) THEN JsNull ELSE id

\* app.post('/sse'): the JSON-RPC switch on method and tool name; destructuring
\* the missing params of a tools/call throws outside the inner try, and the
\* outer catch answers with status 500
PostSse ==
  /\ Idle
  /\ \E req \in HttpRequests :
       /\ checkAuth(req)
       /\ req.route = "POST /sse"
       /\ Arrives(req)
       /\ CASE req.param[1] = "tools/list" ->
                 /\ Sends(200, "POST /sse", << "result", "tools", req.id >>)
                 /\ UNCHANGED toolVars
            [] req.param = << "tools/call" >> ->
                 /\ Sends(500, "POST /sse", << "error", "-32603", orNull(req.id) >>)
                 /\ UNCHANGED toolVars
            [] Len(req.param) = 2 /\ req.param[2] = "get_collection_info" ->
                 /\ BeginInfo
                 /\ UNCHANGED httpRes
            [] Len(req.param) = 2 /\ req.param[2] \notin SseTools ->
                 /\ Sends(200, "POST /sse", << "error", "-32603", req.id >>)
                 /\ UNCHANGED toolVars
            [] OTHER ->
                 /\ Sends(200, "POST /sse", << "error", "-32601", req.id >>)
                 /\ UNCHANGED toolVars
  /\ UNCHANGED << sseConnections, connectionCounter, sseEvents >>
  /\ UNCHANGED << textVars, suspended >>

\* app.get('/collection/info')
GetCollectionInfo ==
  /\ Idle
  /\ \E req \in HttpRequests :
       /\ checkAuth(req)
       /\ req.route = "GET /collection/info"
       /\ Arrives(req)
  /\ BeginInfo
  /\ UNCHANGED << httpRes, sseConnections, connectionCounter, sseEvents >>
  /\ UNCHANGED << textVars, suspended >>

\* the collection request is answered 2xx: getCollectionInfo returns
CollectionOk ==
  /\ pc = "collection"
  /\ lastStatus' = 200
  /\ pc' = "done"
  /\ response' = << [key |-> "collection", item_count |-> Len(collection)] >>
  /\ UNCHANGED << collection, call, requests, items, idx, elicitNote, results,
                  summary, detailedBreakdown, comparison, gaps, error, runs,
                  firstResponse >>
  /\ UNCHANGED << httpVars, textVars, suspended >>

\* const { group_similar = true } = req.query; group_similar === 'true':
\* the default is the boolean true, which is not the string 'true'
restGroupSimilar(param) == param # << >> /\ param[1] = "true"

\* app.get('/analysis/gaps'): extractResearchGaps(group_similar === 'true')
GetAnalysisGaps ==
  /\ Idle
  /\ \E req \in HttpRequests :
       /\ checkAuth(req)
       /\ req.route = "GET /analysis/gaps"
       /\ Arrives(req)
       /\ BeginCall("gaps", [group_similar |-> << restGroupSimilar(req.param) >>])
  /\ UNCHANGED << runs, firstResponse, httpRes, sseConnections, connectionCounter, sseEvents >>
  /\ UNCHANGED << textVars, suspended >>

\* the awaited method has returned or thrown: res.json(...) of the route, or
\* its catch
HttpRespond ==
  /\ pc \in {"done", "failed"}
  /\ httpReq # NoRequest
  /\ httpRes = << >>
  /\ IF httpReq.route = "POST /sse"
     THEN IF pc = "done"
          THEN Sends(200, "POST /sse", << "result", response[1], httpReq.id >>)
          ELSE Sends(200, "POST /sse", << "error", "-32603", httpReq.id >>)
     ELSE IF pc = "done"
          THEN Sends(200, httpReq.route, response[1])
          ELSE Sends(500, httpReq.route, << error[1].cause, error[1].status >>)
  /\ UNCHANGED << toolVars, httpReq, sseConnections, connectionCounter, sseEvents >>
  /\ UNCHANGED << textVars, suspended >>

\* the response has gone out: the request and the locals of its handler are
\* gone
HttpEnd ==
  /\ httpRes # << >>
  /\ httpReq' = NoRequest
  /\ httpRes' = << >>
  /\ pc' = "idle"
  /\ call' = NoCall
  /\ requests' = << >>
  /\ lastStatus' = 0
  /\ items' = << >>
  /\ idx' = 0
  /\ elicitNote' = << >>
  /\ results' = << >>
  /\ summary' = newSummary(0)
  /\ detailedBreakdown' = << >>
  /\ comparison' = EmptyObject
  /\ gaps' = << >>
  /\ response' = << >>
  /\ error' = << >>
  /\ UNCHANGED << collection, runs, firstResponse, sseConnections,
                  connectionCounter, sseEvents >>
  /\ UNCHANGED << textVars, suspended >>

HttpInit ==
  /\ Init
  /\ Len(collection) <= MaxHttpItems

HttpNext ==
  \/ Unauthorized
  \/ GetHealth
  \/ GetRoot
  \/ GetSse
  \/ SseClose
  \/ PostSse
  \/ GetCollectionInfo
  \/ CollectionOk
  \/ GetAnalysisGaps
  \/ ItemsOk
  \/ GapsItem
  \/ RequestFails
  \/ HttpRespond
  \/ HttpEnd

HttpSpec == HttpInit /\ [][HttpNext]_vars

\* ------------------------------------------------------------------------
\* The SSE connection registry on its own
\* ------------------------------------------------------------------------

SseInit == Init /\ collection = << >>

SseNext ==
  \/ Unauthorized
  \/ GetSse
  \/ SseClose
  \/ SseError
  \/ GetHealth
  \/ HttpEnd

SseSpec == SseInit /\ [][SseNext]_vars

\* ------------------------------------------------------------------------
\* Two invocations of the query tools on one server instance
\* ------------------------------------------------------------------------

\* collections of the interleaved runs
MaxConcItems == 2

\* the calls that are interleaved: one of each query tool
ConcCalls ==
  { [tool |-> "search",
     args |-> [query |-> q_Climate, search_field |-> "", study_design |-> << >>,
               has_intervention |-> << >>, limit |-> << >>]],
    [tool |-> "summary", args |-> [include_details |-> << TRUE >>]],
    [tool |-> "compare", args |-> [focus_area |-> "interventions", limit |-> << >>]],
    [tool |-> "gaps", args |-> [group_similar |-> << >>]] }

\* the locals of the running invocation, as a record
runningLocals(who, interleaved) ==
  [who |-> who, interleaved |-> interleaved, pc |-> pc, call |-> call,
   requests |-> requests, lastStatus |-> lastStatus, items |-> items,
   idx |-> idx, elicitNote |-> elicitNote, results |-> results,
   summary |-> summary, detailedBreakdown |-> detailedBreakdown,
   comparison |-> comparison, gaps |-> gaps, response |-> response,
   error |-> error]

InFlight(p) == p \in {"items", "children"}

\* the first call, issued while no other call is being served
ConcCall ==
  /\ pc = "idle"
  /\ runs = 0
  /\ \E c \in ConcCalls : BeginCall(c.tool, c.args)
  /\ runs' = 1
  /\ UNCHANGED << firstResponse, httpVars, textVars, suspended >>

\* the same call is issued again after it has returned
CallAgain ==
  /\ pc = "done"
  /\ runs = 1
  /\ suspended.who # "first"
  /\ BeginCall(call.tool, call.args)
  /\ runs' = 2
  /\ firstResponse' = response
  /\ UNCHANGED << httpVars, textVars, suspended >>

\* a second call arrives while the first is waiting for an upstream answer,
\* or before it is issued again: its handler runs up to its first await
CallSecond ==
  /\ suspended.who = "none"
  /\ \/ runs = 1 /\ pc = "done"
     \/ runs = 2 /\ InFlight(pc)
  /\ \E c \in ConcCalls :
       suspended' = [NoInvocation EXCEPT !.who = "second", !.pc = "items",
                                         !.call = c,
                                         !.requests = << ItemsEndpoint >>]
  /\ UNCHANGED << toolVars, httpVars, textVars >>

\* faulty variant: the result list is a field of the server, shared by the
\* two invocations
SwitchSharedResults ==
  /\ suspended.who # "none"
  /\ pc \in {"items", "children", "done", "failed"}
  /\ InFlight(suspended.pc)
  /\ suspended' =
       [runningLocals(IF suspended.who = "second" THEN "first" ELSE "second",
                      suspended.interleaved \/ InFlight(pc))
          EXCEPT !.results = suspended.results]
  /\ pc' = suspended.pc
  /\ call' = suspended.call
  /\ requests' = suspended.requests
  /\ lastStatus' = suspended.lastStatus
  /\ items' = suspended.items
  /\ idx' = suspended.idx
  /\ elicitNote' = suspended.elicitNote
  /\ summary' = suspended.summary
  /\ detailedBreakdown' = suspended.detailedBreakdown
  /\ comparison' = suspended.comparison
  /\ gaps' = suspended.gaps
  /\ response' = suspended.response
  /\ error' = suspended.error
  /\ UNCHANGED << collection, results, runs, firstResponse, httpVars, textVars >>

\* the running invocation waits at an await (or has ended) and the event
\* loop resumes the other one: each invocation goes on with its own locals
Switch ==
  /\ suspended.who # "none"
  /\ pc \in {"items", "children", "done", "failed"}
  /\ InFlight(suspended.pc)
  /\ suspended' =
       runningLocals(IF suspended.who = "second" THEN "first" ELSE "second",
                     suspended.interleaved \/ InFlight(pc))
  /\ pc' = suspended.pc
  /\ call' = suspended.call
  /\ requests' = suspended.requests
  /\ lastStatus' = suspended.lastStatus
  /\ items' = suspended.items
  /\ idx' = suspended.idx
  /\ elicitNote' = suspended.elicitNote
  /\ results' = suspended.results
  /\ summary' = suspended.summary
  /\ detailedBreakdown' = suspended.detailedBreakdown
  /\ comparison' = suspended.comparison
  /\ gaps' = suspended.gaps
  /\ response' = suspended.response
  /\ error' = suspended.error
  /\ UNCHANGED << collection, runs, firstResponse, httpVars, textVars >>

ConcInit == Init /\ Len(collection) <= MaxConcItems

ConcNext ==
  \/ ConcCall
  \/ CallAgain
  \/ CallSecond
  \/ Switch
  \/ ItemsOk
  \/ RequestFails
  \/ SearchItem
  \/ SummaryItem
  \/ CompareItem
  \/ GapsItem

ConcSpec == ConcInit /\ [][ConcNext]_vars

\* ------------------------------------------------------------------------
\* cleanHTMLForDisplay applied on its own to bounded inputs
\* ------------------------------------------------------------------------

\* the number of pieces an input string is made of
MaxPieces == 3

\* pieces of note text: letters, a space, tags, entities, and the tail of an
\* entity that an encoded ampersand precedes
Pieces ==
  { << "a" >>, << " " >>, << "b" >>, << "<", "b", ">" >>, s_br, s_amp_entity,
    s_lt_entity, s_gt_entity, << "l", "t", ";" >> }

\* the strings made of at most n pieces
RECURSIVE StringsOf(_)
StringsOf(n) ==
  IF n = 0 THEN { << >> }
  ELSE LET Shorter == StringsOf(n - 1)
       IN  Shorter \cup {s \o p : <<s, p>> \in Shorter \X Pieces}

\* the argument: null / undefined, or a string
NormalizerInputs == { << >> } \cup { << s >> : s \in StringsOf(MaxPieces) }

\* this.cleanHTMLForDisplay(html) for an argument that may be null or
\* undefined: if (!html) return ''
cleanHTMLForDisplayOf(arg) ==
  IF arg = << >> THEN << >> ELSE cleanHTMLForDisplay(arg[1])

NormalizerInit ==
  /\ collection = << >>
  /\ ServerInit
  /\ htmlArg \in NormalizerInputs
  /\ passes = << >>

\* the normalizer is applied to the argument
Normalize ==
  /\ passes = << >>
  /\ passes' = << cleanHTMLForDisplayOf(htmlArg) >>
  /\ UNCHANGED << toolVars, httpVars, htmlArg, suspended >>

\* the normalizer is applied to its own output
Renormalize ==
  /\ Len(passes) = 1
  /\ passes' = Append(passes, cleanHTMLForDisplay(passes[1]))
  /\ UNCHANGED << toolVars, httpVars, htmlArg, suspended >>

NormalizerNext ==
  \/ Normalize
  \/ Renormalize

NormalizerSpec == NormalizerInit /\ [][NormalizerNext]_vars



\* ------------------------------------------------------------------------
\* Properties
\* ------------------------------------------------------------------------

\* the note has one of the two literal markers, letter case respected
HasLiteralMarker(child) ==
  /\ child.itemType = "note"
  /\ child.note # << >>
  /\ \/ includes(child.note[1], s_ElicitAnalysis)
     \/ includes(child.note[1], s_elicit_analysis)

\* the note has "Elicit Analysis", or "elicit-analysis" in any letter case
HasMarkerAnyCase(child) ==
  /\ child.itemType = "note"
  /\ child.note # << >>
  /\ \/ includes(child.note[1], s_ElicitAnalysis)
     \/ includes(toLowerCase(child.note[1]), s_elicit_analysis)

\* the first child of each item of the library with a literal marker, and the
\* first with a marker in any case: << >> or << child >>
LiteralMarkerNoteOf ==
  [k \in ItemKeys |->
     LET Hits == {i \in 1..Len(ChildrenOf[k]) : HasLiteralMarker(ChildrenOf[k][i])}
     IN  IF Hits = {} THEN << >> ELSE << ChildrenOf[k][SetMin(Hits)] >>]

AnyCaseMarkerNoteOf ==
  [k \in ItemKeys |->
     LET Hits == {i \in 1..Len(ChildrenOf[k]) : HasMarkerAnyCase(ChildrenOf[k][i])}
     IN  IF Hits = {} THEN << >> ELSE << ChildrenOf[k][SetMin(Hits)] >>]

Structured(k) == LiteralMarkerNoteOf[k] # << >>

\* the fetched items whose children have arrived and that have a structured note
ScannedStructured == {i \in 1..idx : Structured(items[i].key)}

SearchDone == pc = "done" /\ call.tool = "search"

\* C1: a finished search returns at most limit results (10 when limit is
\* omitted) and reports a total_matches of at most limit.
C1_AtMostLimit ==
  SearchDone =>
    LET limit == IF call.args.limit = << >> THEN 10 ELSE call.args.limit[1]
    IN  /\ Len(response[1].results) <= limit
        /\ response[1].total_matches <= limit

\* the structured note of item k matches the query in the selected field and
\* passes the supplied filters
QueryHits(k, q) ==
  LET content == toLowerCase(LiteralMarkerNoteOf[k][1].note[1])
      query == toLowerCase(q.query)
      inField ==
        IF q.search_field \in {"", "all"} THEN includes(content, query)
        ELSE IF q.search_field \in DOMAIN fieldPatterns
        THEN \E i \in DOMAIN SectionMatchesFrom(content, fieldPatterns[q.search_field], 1) :
                includes(SectionMatchesFrom(content, fieldPatterns[q.search_field], 1)[i],
                         query)
        ELSE FALSE
      designOk == \/ q.study_design = << >>
                  \/ includes(content, toLowerCase(q.study_design))
      derived == includes(content, s_intervention) /\ ~ includes(content, s_no_intervention)
      interventionOk == \/ q.has_intervention = << >>
                        \/ q.has_intervention[1] = derived
  IN  inField /\ designOk /\ interventionOk

QueryHitsOf ==
  [k \in {x \in ItemKeys : Structured(x)} |-> [q \in SearchQueries |-> QueryHits(k, q)]]

PositionOf(k) == CHOOSE i \in 1..Len(items) : items[i].key = k

\* C3: the results of a finished search follow the order of the fetched items,
\* no item twice, and the same search run again over the same library returns
\* the same response.
C3_OrderedAndRepeatable ==
  SearchDone =>
    /\ \A j \in 1..Len(response[1].results) :
         \E i \in 1..Len(items) : items[i].key = response[1].results[j].key
    /\ \A j1, j2 \in 1..Len(response[1].results) :
         j1 < j2 => PositionOf(response[1].results[j1].key)
                      < PositionOf(response[1].results[j2].key)
    /\ runs >= 2 => response = firstResponse

\* a second run of a search that returned two results
C3_Witness ==
  /\ SearchDone
  /\ runs = 2
  /\ Len(response[1].results) >= 2

AccumulatedKeys ==
  {results[j].key : j \in 1..Len(results)}
    \cup {gaps[j].paper_key : j \in 1..Len(gaps)}
    \cup {detailedBreakdown[j].paper_key : j \in 1..Len(detailedBreakdown)}
    \cup UNION {{comparison[v][j].key : j \in 1..Len(comparison[v])} : v \in DOMAIN comparison}

\* C5: an item without a structured note is skipped: its loop body changes no
\* result list, group, gap record, breakdown or count and raises no error, so
\* only items with a structured note ever appear in them.
C5_UnstructuredSkipped ==
  /\ [](/\ \A k \in AccumulatedKeys : Structured(k)
        /\ call.tool = "summary" => summary.papers_with_elicit = Cardinality(ScannedStructured))
  /\ [][(idx' = idx + 1 /\ ~ Structured(items[idx + 1].key)) =>
          /\ results' = results
          /\ summary' = summary
          /\ detailedBreakdown' = detailedBreakdown
          /\ comparison' = comparison
          /\ gaps' = gaps
          /\ error' = << >>
          /\ pc' # "failed"]_vars

\* a detailed summary over an item with and an item without a structured note
C5_Witness ==
  /\ pc = "done"
  /\ call.tool = "summary"
  /\ Len(detailedBreakdown) >= 1
  /\ \E i \in 1..idx : ~ Structured(items[i].key)

\* the operation ended without a failed upstream request, over fetched items
\* none of which has a structured note
EndedWithoutStructured ==
  /\ call.tool \in {"search", "summary", "compare", "gaps"}
  /\ pc \in {"done", "failed"}
  /\ lastStatus = 200
  /\ \A i \in 1..Len(items) : ~ Structured(items[i].key)

\* the response is empty, with total_papers as given
EmptyResponse(total) ==
  /\ pc = "done"
  /\ error = << >>
  /\ call.tool = "search" =>
       response[1].results = << >> /\ response[1].total_matches = 0
  /\ call.tool = "summary" =>
       /\ response[1].summary.total_papers = total
       /\ response[1].summary.papers_with_elicit = 0
       /\ DOMAIN response[1].summary.analysis_coverage = {}
       /\ DOMAIN response[1].summary.study_designs = {}
       /\ DOMAIN response[1].summary.regions = {}
       /\ \A j \in 1..Len(response[1].detailed_breakdown) :
            response[1].detailed_breakdown[j] = << >>
  /\ call.tool = "compare" =>
       /\ DOMAIN response[1].comparison_results = {}
       /\ response[1].unique_approaches = 0
       /\ response[1].total_papers_analyzed = 0
  /\ call.tool = "gaps" =>
       /\ response[1].gaps = << >>
       /\ response[1].total_gaps_identified = 0
       /\ \A j \in 1..Len(response[1].grouped_gaps) :
            DOMAIN response[1].grouped_gaps[j] = {}

\* C6 as claimed: with no structured note in the fetched set every operation
\* returns an empty response in which all counts are 0, without an error.
C6_AllCountsZero == EndedWithoutStructured => EmptyResponse(0)

\* C6 amended: all counts are 0 except total_papers of summarize, which is the
\* number of fetched items.
C6_EmptyExceptTotal == EndedWithoutStructured => EmptyResponse(Len(items))

\* a summary over a non-empty collection without any structured note
C6_Witness ==
  /\ EndedWithoutStructured
  /\ call.tool = "summary"
  /\ Len(items) >= 2

\* C7: a failed upstream request ends the operation with one error that
\* carries the provider's status and with no result, and no upstream request
\* is issued twice for one call.
C7_FetchFailurePropagates ==
  /\ \A i, j \in 1..Len(requests) : i < j => requests[i] # requests[j]
  /\ lastStatus \notin {0, 200} =>
       /\ pc = "failed"
       /\ response = << >>
       /\ Len(error) = 1
       /\ error[1].cause = "Zotero API error"
       /\ error[1].status = lastStatus

\* a children request fails after results have been collected
C7_Witness ==
  /\ pc = "failed"
  /\ lastStatus = 500
  /\ Len(results) >= 1
  /\ Len(requests) >= 3

\* C8: a comparison that met no failed upstream request returns groups in
\* which every fetched item with a structured note is exactly once;
\* total_papers_analyzed is their number, unique_approaches the group count.
C8_ExactlyOneGroup ==
  (call.tool = "compare" /\ pc \in {"done", "failed"} /\ lastStatus = 200) =>
    /\ pc = "done"
    /\ LET groups == response[1].comparison_results
           Places(k) == {<<v, j>> \in UNION {{v} \X (1..Len(groups[v])) : v \in DOMAIN groups} :
                           groups[v][j].key = k}
           WithNote == {i \in 1..Len(items) : Structured(items[i].key)}
       IN  /\ \A i \in WithNote : Cardinality(Places(items[i].key)) = 1
           /\ response[1].total_papers_analyzed = Cardinality(WithNote)
           /\ response[1].unique_approaches = Cardinality(DOMAIN groups)

\* vocabulary of the grouping
GapVocabulary ==
  { s_machine_learning, s_intervention, s_longitudinal, s_causal, s_randomized,
    s_sample_size, s_methodology }

GroupedGapsDone ==
  pc = "done" /\ call.tool = "gaps" /\ response[1].grouped_gaps # << >>

\* the records of a list, as a set
Records(list) == {list[j] : j \in 1..Len(list)}

\* C9: with groupSimilar, the bucket of each keyword holds exactly the gap
\* records whose text contains the keyword, letter case ignored (a keyword no
\* record contains has no bucket).
C9_BucketsExact ==
  GroupedGapsDone =>
    LET grouped == response[1].grouped_gaps[1]
        Bucket(kw) == IF kw \in DOMAIN grouped THEN Records(grouped[kw]) ELSE {}
    IN  /\ DOMAIN grouped \subseteq GapVocabulary
        /\ \A kw \in DOMAIN grouped : grouped[kw] # << >>
        /\ \A kw \in GapVocabulary :
             Bucket(kw) = {r \in Records(response[1].gaps) :
                             includes(toLowerCase(r.research_gap), kw)}

\* a record in two buckets, a record in none and a record matched through
\* upper-case text
C9_Witness ==
  /\ GroupedGapsDone
  /\ s_longitudinal \in DOMAIN response[1].grouped_gaps[1]
  /\ s_causal \in DOMAIN response[1].grouped_gaps[1]
  /\ \E r \in Records(response[1].gaps) :
       /\ r \in Records(response[1].grouped_gaps[1][s_longitudinal])
       /\ r \in Records(response[1].grouped_gaps[1][s_causal])
  /\ \E r \in Records(response[1].gaps) :
       \A kw \in DOMAIN response[1].grouped_gaps[1] :
         r \notin Records(response[1].grouped_gaps[1][kw])

\* the extracted value is longer than 10 characters and not the placeholder
NonTrivial(value) == Len(value) > 10 /\ value # s_NotSpecified

\* the records item k owes: one for Research Gaps, one for Future Research
OwedRecords(k) ==
  LET gap == paragraphOf[k][s_ResearchGaps]
      future == paragraphOf[k][s_FutureResearch]
  IN  (IF gap # << >> /\ NonTrivial(gap[1])
       THEN << [paper_key |-> k, paper_title |-> ItemOf(k).title,
                research_gap |-> gap[1], type |-> << >>] >>
       ELSE << >>)
      \o (IF future # << >> /\ NonTrivial(future[1])
          THEN << [paper_key |-> k, paper_title |-> ItemOf(k).title,
                   research_gap |-> future[1], type |-> << "future_research" >>] >>
          ELSE << >>)

RECURSIVE OwedUpTo(_)
OwedUpTo(n) ==
  IF n = 0 THEN << >>
  ELSE OwedUpTo(n - 1)
         \o (IF Structured(items[n].key) THEN OwedRecords(items[n].key) ELSE << >>)

\* C10: the gap records are, item by item, the Research Gaps record and the
\* Future Research record of each item with a structured note, each present
\* exactly when its value is non-trivial; total_gaps_identified counts them.
C10_GapRecords ==
  call.tool = "gaps" =>
    /\ gaps = OwedUpTo(idx)
    /\ pc = "done" => /\ response[1].gaps = gaps
                      /\ response[1].total_gaps_identified = Len(gaps)

\* papers contributing two, one and no record in one extraction
C10_Witness ==
  /\ pc = "done"
  /\ call.tool = "gaps"
  /\ \E i \in ScannedStructured : Len(OwedRecords(items[i].key)) = 2
  /\ \E i \in ScannedStructured : Len(OwedRecords(items[i].key)) = 0
  /\ \E i \in ScannedStructured : Len(OwedRecords(items[i].key)) = 1

\* ------------------------------------------------------------------------
\* C11..C20
\* ------------------------------------------------------------------------

\* a summarize call that has returned over an empty item set
EmptySummaryDone ==
  /\ pc = "done"
  /\ call.tool = "summary"
  /\ lastStatus = 200
  /\ items = << >>

SummaryDone ==
  /\ pc = "done"
  /\ call.tool = "summary"
  /\ Len(items) >= 1

\* the items of the fetched set that have a structured note
WithStructuredNote == {i \in 1..Len(items) : Structured(items[i].key)}

\* r is p / t as a percentage rounded to the nearest integer, halves up
IsRoundedPercentage(r, p, t) ==
  /\ r \in 0..100
  /\ 2 * t * r <= 200 * p + t
  /\ 200 * p + t < 2 * t * (r + 1)

\* C12: over at least one item, summarize reports papers_with_elicit as the
\* number of items having a structured note, which never exceeds
\* total_papers, and coverage_percentage as round(100 * papers_with_elicit /
\* total_papers), a number between 0 and 100.
C12_CoverageCount ==
  SummaryDone =>
    LET r == response[1]
    IN  /\ r.summary.total_papers = Len(items)
        /\ r.summary.papers_with_elicit = Cardinality(WithStructuredNote)
        /\ r.summary.papers_with_elicit <= r.summary.total_papers
        /\ r.coverage_percentage[1] = "number"
        /\ IsRoundedPercentage(r.coverage_percentage[2],
                               r.summary.papers_with_elicit,
                               r.summary.total_papers)

\* two of three items have a structured note: 66.67 is reported as 67
C12_Witness ==
  /\ SummaryDone
  /\ Len(items) = 3
  /\ Cardinality(WithStructuredNote) = 2
  /\ response[1].coverage_percentage = JsNumber(67)

\* the limit the caller asked for: 10 when omitted
ClaimedLimit(args) == IF args.limit = << >> THEN 10 ELSE args.limit[1]

\* C18: search stops scanning once limit matches are collected: a child-note
\* lookup is outstanding only while the result list is shorter than limit.
C18_StopsAtLimit ==
  (pc = "children" /\ call.tool = "search") =>
    Len(results) < ClaimedLimit(call.args)

\* the children of item k without the structured notes that follow the first
\* one in the provider's order
WithoutLaterStructured ==
  [k \in ItemKeys |->
     LET cs == ChildrenOf[k]
         Hits == {i \in 1..Len(cs) : HasLiteralMarker(cs[i])}
         Kept == {i \in 1..Len(cs) : i \notin Hits \/ i = SetMin(Hits)}
         RECURSIVE Pick(_)
         Pick(i) == IF i > Len(cs) THEN << >>
                    ELSE (IF i \in Kept THEN << cs[i] >> ELSE << >>) \o Pick(i + 1)
     IN  Pick(1)]

\* what the first structured note of item k alone gives: the search loop body
\* for each query, the extracted paragraph for each label, the fields present
FirstNoteSearchOf ==
  [k \in ItemKeys |->
     [a \in SearchQueries |->
        searchLoopBody(ItemOf(k), WithoutLaterStructured[k], a)]]

FirstNoteParagraphOf ==
  [k \in {x \in ItemKeys : Structured(x)} |->
     [l \in ParagraphLabels |->
        extractParagraph(LiteralMarkerNoteOf[k][1].note[1], l)]]

FirstNoteFieldsOf ==
  [k \in {x \in ItemKeys : Structured(x)} |->
     presentFields(LiteralMarkerNoteOf[k][1].note[1])]

\* the value compare groups item k under, taken from its first structured note
FirstNoteValue(k, focusArea) ==
  IF focusArea \in DOMAIN focusField
  THEN LET m == FirstNoteParagraphOf[k][focusField[focusArea].label]
       IN  IF m = << >> THEN focusField[focusArea].missing ELSE m[1]
  ELSE << >>

\* C19: of several structured child notes of an item only the first in the
\* provider's child order is used by every operation: it is the note found,
\* and each result, breakdown entry, frequency count, group and gap record is
\* what that note alone gives.
C19_FirstStructuredWins ==
  /\ (idx >= 1 /\ call.tool # "none") =>
       elicitNote = LiteralMarkerNoteOf[items[idx].key]
  /\ \A j \in 1..Len(results) :
       LET body == FirstNoteSearchOf[results[j].key][queryOf(call.args)]
       IN  body.pushed = << results[j] >>
  /\ \A j \in 1..Len(detailedBreakdown) :
       LET e == detailedBreakdown[j]
       IN  /\ Structured(e.paper_key)
           /\ e.note_key = LiteralMarkerNoteOf[e.paper_key][1].key
           /\ e.analysis_fields = FirstNoteFieldsOf[e.paper_key]
  /\ call.tool = "summary" =>
       \A v \in DOMAIN summary.study_designs :
         summary.study_designs[v][1] = "number" =>
           summary.study_designs[v][2] =
             Cardinality({i \in ScannedStructured :
                FirstNoteParagraphOf[items[i].key][s_StudyDesign] = << v >>})
  /\ \A v \in DOMAIN comparison : \A j \in 1..Len(comparison[v]) :
       /\ Structured(comparison[v][j].key)
       /\ FirstNoteValue(comparison[v][j].key, focusAreaOf(call.args)) = v
  /\ \A j \in 1..Len(gaps) :
       /\ Structured(gaps[j].paper_key)
       /\ gaps[j].research_gap \in
            {FirstNoteParagraphOf[gaps[j].paper_key][l][1] :
               l \in {x \in {s_ResearchGaps, s_FutureResearch} :
                        FirstNoteParagraphOf[gaps[j].paper_key][x] # << >>}}

\* an item with two structured notes that differ in study design has been
\* grouped by compare under the design of the first
C19_Witness ==
  /\ pc = "done"
  /\ call.tool = "compare"
  /\ focusAreaOf(call.args) = "study_design"
  /\ \E v \in DOMAIN comparison : \E j \in 1..Len(comparison[v]) :
       /\ comparison[v][j].key = "F6"
       /\ v = cleanHTMLForDisplay(
                ParagraphMatches(ChildrenOf["F6"][1].note[1], s_StudyDesign)[1])
       /\ v # cleanHTMLForDisplay(
                ParagraphMatches(ChildrenOf["F6"][2].note[1], s_StudyDesign)[1])

\* no note of the library has an angle bracket outside its tags, so a "<" or
\* ">" in a snippet is a piece of the note's markup
NoMarkup(text) == \A i \in 1..Len(text) : text[i] \notin {"<", ">"}

\* C13: every context snippet search returns, in "all" mode and in field
\* mode, is free of residual HTML markup: no tag and no fragment of a tag.
C13_SnippetsFreeOfMarkup ==
  \A j \in 1..Len(results) : NoMarkup(results[j].match_context)

\* the window of the claim: the normalized content of the note, the first
\* index i of the query in it (letter case ignored), and the characters from
\* max(0, i - 100) to min(n, i + 200); << >> when the query does not occur
NormalizedWindow(note, query) ==
  LET normalized == cleanHTMLForDisplay(note)
      i == indexOf(toLowerCase(normalized), toLowerCase(query))
  IN  IF i < 0 THEN << >>
      ELSE << substring(normalized, Max2(0, i - 100),
                        Min2(Len(normalized), i + 200)) >>

NormalizedWindowOf ==
  [k \in {x \in ItemKeys : Structured(x)} |->
     [q \in {a.query : a \in SearchQueries} |->
        NormalizedWindow(LiteralMarkerNoteOf[k][1].note[1], q)]]

\* C20: in search with field "all" or omitted, the context snippet of a
\* result is the window max(0, i - 100) .. min(n, i + 200) of the normalized
\* note content around the first occurrence i of the query (compared here
\* without regard to letter case).
C20_WindowOfNormalizedContent ==
  (call.tool = "search" /\ call.args.search_field \in {"", "all"}) =>
    \A j \in 1..Len(results) :
      LET w == NormalizedWindowOf[results[j].key][call.args.query]
      IN  w # << >> =>
            toLowerCase(results[j].match_context) = toLowerCase(w[1])

\* the data endpoints and the endpoints the API documentation calls public
Protected(route) == route \in {"GET /collection/info", "GET /analysis/gaps"}

Public(route) == route \in {"GET /health", "GET /", "GET /sse", "POST /sse"}

\* the request carries the configured key in its header or in a query parameter
CarriesKey(req) == << API_KEY >> \in {req.xApiKey, req.api_key, req.key}

\* C16: in the HTTP server with SSE the API key is required for the
\* /collection/* and /analysis/* endpoints only: such a request without the
\* configured key is answered 401 by the middleware, runs no handler and
\* causes no upstream request, while GET /health, GET / and GET or POST /sse
\* are served by their handlers, key or no key.
C16_KeyForDataEndpointsOnly ==
  /\ (Protected(httpReq.route) /\ ~ CarriesKey(httpReq)) =>
       /\ pc = "idle"
       /\ requests = << >>
       /\ httpRes # << >> =>
            httpRes[1].status = 401 /\ httpRes[1].by = "checkAuth"
  /\ (Public(httpReq.route) /\ httpRes # << >>) =>
       httpRes[1].status # 401 /\ httpRes[1].by = httpReq.route

\* the caller of the gap extraction set group_similar to false
CallerSetFalse ==
  IF httpReq.route = "GET /analysis/gaps" THEN httpReq.param = << "false" >>
  ELSE call.args.group_similar = << FALSE >>

\* C17: on every transport gap extraction groups similar gaps unless the
\* caller sets group_similar to false: the MCP tool extract_research_gaps and
\* GET /analysis/gaps return grouped_gaps when the parameter is absent or
\* true, and omit it only when it is false.
C17_GroupedByDefault ==
  (pc = "done" /\ call.tool = "gaps") =>
    /\ response[1].grouped_gaps = << >> <=> CallerSetFalse
    /\ \A i \in 1..Len(httpRes) :
         httpRes[i].status = 200 /\ httpRes[i].body = response[1]

\* C14: the normalizer is idempotent, applying it to its own output returns
\* that output unchanged for every input string, and it returns the empty
\* string for null or undefined input.
C14_NormalizerIdempotent ==
  /\ Len(passes) = 2 => passes[2] = passes[1]
  /\ (htmlArg = << >> /\ Len(passes) >= 1) => passes[1] = << >>

\* ------------------------------------------------------------------------
\* C21..C30
\* ------------------------------------------------------------------------

\* the extracted value of each searchable field of each structured note: the
\* first paragraph after the field's label, normalized
FieldValueOf ==
  [k \in {x \in ItemKeys : Structured(x)} |->
     [f \in DOMAIN fieldPatterns |->
        extractParagraph(LiteralMarkerNoteOf[k][1].note[1], fieldPatterns[f])]]

\* the query occurs, letter case ignored, within the field's extracted value
WithinFieldValue(k, args) ==
  LET value == FieldValueOf[k][args.search_field]
  IN  /\ value # << >>
      /\ includes(toLowerCase(value[1]), toLowerCase(args.query))

\* C21: when search is given a recognized field (and no filter), a scanned
\* structured item is returned if and only if the query occurs, letter case
\* ignored, within that field's extracted value; the field label and the
\* other text of the note never produce a match.
C21_MatchWithinFieldValue ==
  ( /\ SearchDone
    /\ call.args.search_field \in DOMAIN fieldPatterns
    /\ call.args.study_design = << >>
    /\ call.args.has_intervention = << >> ) =>
    \A i \in ScannedStructured :
      (\E j \in 1..Len(response[1].results) :
          response[1].results[j].key = items[i].key)
        <=> WithinFieldValue(items[i].key, call.args)

\* the structured note of each item matches each query, filters left aside
MatchFoundOf ==
  [k \in {x \in ItemKeys : Structured(x)} |->
     [q \in SearchQueries |->
        searchMatch(toLowerCase(LiteralMarkerNoteOf[k][1].note[1]), q).matchFound]]

\* the post-filters as the claim states them, on the lowercased note content
SatisfiesFilters(k, args) ==
  LET content == toLowerCase(LiteralMarkerNoteOf[k][1].note[1])
      derived == /\ includes(content, s_intervention)
                 /\ ~ includes(content, s_no_intervention)
  IN  /\ args.study_design # << >> =>
           includes(content, toLowerCase(args.study_design))
      /\ args.has_intervention # << >> => args.has_intervention[1] = derived

SatisfiesFiltersOf ==
  [k \in {x \in ItemKeys : Structured(x)} |->
     [q \in SearchQueries |-> SatisfiesFilters(k, q)]]

Returned(k) ==
  \E j \in 1..Len(response[1].results) : response[1].results[j].key = k

\* C22: every result search returns satisfies all supplied post-filters
\* (study_design: the lowercased content contains it; has_intervention: it
\* equals "content contains 'intervention' and not 'no intervention'"); a
\* matching item failing a supplied filter is never returned, and a scanned
\* matching item that satisfies the supplied filters (all of them, when none
\* is supplied) is returned.
C22_ResultsSatisfyFilters ==
  SearchDone =>
    /\ \A j \in 1..Len(response[1].results) :
         SatisfiesFiltersOf[response[1].results[j].key][queryOf(call.args)]
    /\ \A i \in ScannedStructured :
         ( /\ MatchFoundOf[items[i].key][queryOf(call.args)]
           /\ SatisfiesFiltersOf[items[i].key][queryOf(call.args)] )
           => Returned(items[i].key)

\* a search with has_intervention = true returned an item and left out a
\* scanned item that matches the query but has "no intervention" in its note
C22_Witness ==
  /\ SearchDone
  /\ call.args.has_intervention = << TRUE >>
  /\ Len(response[1].results) >= 1
  /\ \E i \in ScannedStructured :
       /\ MatchFoundOf[items[i].key][queryOf(call.args)]
       /\ includes(toLowerCase(LiteralMarkerNoteOf[items[i].key][1].note[1]),
                   s_no_intervention)
       /\ ~ Returned(items[i].key)

\* the field and the placeholder the claim gives each focus area
ClaimedFieldLabel(focusArea) ==
  CASE focusArea = "study_design" -> s_StudyDesign
    [] focusArea = "statistical_techniques" -> s_StatisticalTechniques
    [] focusArea = "interventions" -> s_Intervention
    [] focusArea = "outcomes" -> s_OutcomeMeasured

ClaimedPlaceholder(focusArea) ==
  IF focusArea = "interventions" THEN s_NoIntervention ELSE s_NotSpecified

\* the group the claim puts item k in
ClaimedGroup(k, focusArea) ==
  LET value == paragraphOf[k][ClaimedFieldLabel(focusArea)]
  IN  IF value = << >> THEN ClaimedPlaceholder(focusArea) ELSE value[1]

CompareDone == pc = "done" /\ call.tool = "compare"

FourFocusAreas == {"study_design", "statistical_techniques", "interventions", "outcomes"}

\* C23: compare groups every item that has a structured note by the field of
\* its focus area (study_design: Study Design, statistical_techniques:
\* Statistical Techniques, interventions: Intervention, outcomes: Outcome
\* Measured); an item whose field cannot be extracted is under "No
\* intervention" for interventions and under "Not specified" otherwise.
C23_FocusFieldAndPlaceholder ==
  (CompareDone /\ focusAreaOf(call.args) \in FourFocusAreas) =>
    LET groups == response[1].comparison_results
    IN  \A i \in 1..Len(items) :
          Structured(items[i].key) =>
            LET g == ClaimedGroup(items[i].key, focusAreaOf(call.args))
            IN  /\ g \in DOMAIN groups
                /\ \E j \in 1..Len(groups[g]) : groups[g][j].key = items[i].key

\* a comparison of interventions with an item under "No intervention" (its
\* note has no Intervention section) and an item under an extracted value
C23_Witness ==
  /\ CompareDone
  /\ focusAreaOf(call.args) = "interventions"
  /\ s_NoIntervention \in DOMAIN response[1].comparison_results
  /\ \E i \in 1..Len(items) :
       /\ Structured(items[i].key)
       /\ paragraphOf[items[i].key][s_Intervention] = << >>
  /\ \E i \in 1..Len(items) :
       /\ Structured(items[i].key)
       /\ paragraphOf[items[i].key][s_Intervention] # << >>

\* the fixed vocabulary of field labels
FieldVocabulary ==
  { s_Summary, s_MainFindings, s_Methodology, s_Limitations, s_ResearchQuestion,
    s_Intervention, s_StatisticalTechniques, s_StudyDesign, s_Region,
    s_ResearchGaps, s_FutureResearch, s_OutcomeMeasured }

\* the labels of the vocabulary the structured note of each item contains,
\* letter case ignored
LabelsPresentOf ==
  [k \in {x \in ItemKeys : Structured(x)} |->
     {l \in FieldVocabulary :
        includes(toLowerCase(LiteralMarkerNoteOf[k][1].note[1]), toLowerCase(l))}]

\* the count a coverage map gives a label: 0 when the map has no such entry
CoverageCount(coverage, label) ==
  IF label \in DOMAIN coverage THEN coverage[label] ELSE JsNumber(0)

\* C24: for each label of the vocabulary of twelve, summarize's coverage map
\* counts the structured notes whose content contains the label, letter case
\* ignored, whether or not the field can be extracted; no count exceeds the
\* number of structured notes.
C24_CoverageOverVocabulary ==
  SummaryDone =>
    LET coverage == response[1].summary.analysis_coverage
    IN  \A l \in FieldVocabulary :
          /\ CoverageCount(coverage, l) =
               JsNumber(Cardinality({i \in WithStructuredNote :
                                        l \in LabelsPresentOf[items[i].key]}))
          /\ CoverageCount(coverage, l)[2] <= response[1].summary.papers_with_elicit

\* C29: in the stdio servers a tools/call request naming a tool that is not
\* in the tool list fails with an McpError whose code is MethodNotFound
\* ("Unknown tool: <name>"), not the InternalError code of a failed known
\* tool.
C29_UnknownToolIsMethodNotFound ==
  (pc = "failed" /\ call.tool \in UnknownTools) =>
    /\ error # << >>
    /\ error[1].code = "MethodNotFound"
    /\ error[1].code # "InternalError"
    /\ error[1].cause = "Unknown tool"

DetailsCall == call.tool = "details"

\* no upstream request of the call has been answered with an error
NoUpstreamFailure == lastStatus \notin FailStatuses

\* the item key of the call is among the items of the configured collection
KeyInCollection ==
  \E i \in 1..Len(collection) : collection[i] = call.args.item_key

\* C30: getItemDetails checks membership first: the first upstream request is
\* the collection's item listing; for a key that is not among the
\* collection's items the call fails with "Item <key> not found in the
\* configured collection" and neither /items/<key> nor its children is ever
\* requested; for every key that is in the collection the details are
\* returned (unless an upstream request fails).
C30_DetailsOnlyForMembers ==
  DetailsCall =>
    /\ requests # << >> /\ requests[1] = ItemsEndpoint
    /\ ~ KeyInCollection =>
         /\ \A n \in 1..Len(requests) :
              requests[n] \notin {ItemEndpoint(call.args.item_key),
                                  ChildrenEndpoint(call.args.item_key)}
         /\ pc # "done"
         /\ (pc = "failed" /\ NoUpstreamFailure) =>
              error = << ItemNotInCollection >>
    /\ (KeyInCollection /\ NoUpstreamFailure /\ pc \in {"done", "failed"}) =>
         /\ pc = "done"
         /\ response[1].key = call.args.item_key

QueryTools == {"search", "summary", "compare", "gaps"}

\* the upstream requests of the running call: the item listing once, first,
\* and then children lookups of fetched items, no item twice
OneListingOneLookupPerItem ==
  /\ requests # << >>
  /\ requests[1] = ItemsEndpoint
  /\ \A n \in 2..Len(requests) :
       /\ requests[n] # ItemsEndpoint
       /\ \E i \in 1..Len(items) : requests[n] = ChildrenEndpoint(items[i].key)
       /\ \A m \in 2..Len(requests) : requests[m] = requests[n] => m = n
  /\ Len(requests) <= 1 + Len(items)

AwaitingUpstream == call.tool \in QueryTools /\ pc \in {"items", "children"}

Terminated ==
  \/ pc = "done" /\ response # << >> /\ error = << >>
  \/ pc = "failed" /\ error # << >> /\ response = << >>

\* C26: each of the four query operations issues one item listing and at
\* most one children lookup per fetched item; when every upstream call
\* eventually returns or fails, the operation eventually terminates with a
\* result or with an error.
C26_BoundedRequestsAndTermination ==
  /\ [](call.tool \in QueryTools => OneListingOneLookupPerItem)
  /\ AwaitingUpstream ~> Terminated

\* an operation that returned after the listing and one lookup for each of
\* its two items
C26_Witness ==
  /\ call.tool \in QueryTools
  /\ pc = "done"
  /\ Len(items) = 2
  /\ Len(requests) = 3
  /\ response # << >>

\* the locals of the first call (the one that was run alone before) and of
\* the second call, wherever they are
FirstLocals ==
  IF suspended.who = "first" THEN suspended ELSE runningLocals("first", FALSE)

SecondLocals ==
  IF suspended.who = "first" THEN runningLocals("second", FALSE) ELSE suspended

\* the upstream requests of a query call only read: the item listing and
\* children lookups (fetch is called without a method or a body)
ReadsOnly(log) ==
  \A n \in 1..Len(log) :
    \/ log[n] = ItemsEndpoint
    \/ \E k \in ItemKeys : log[n] = ChildrenEndpoint(k)

\* C25: the query operations are read-only and keep no state across calls: a
\* call that runs interleaved with another call on the same server returns
\* what the same call returned when it ran alone over the same library, and
\* every upstream request is a read.
C25_InterleavedAsAlone ==
  /\ (runs = 2 /\ FirstLocals.pc = "done") => FirstLocals.response = firstResponse
  /\ ReadsOnly(requests)
  /\ ReadsOnly(suspended.requests)

\* a search that ran interleaved with a gap extraction (both were waiting
\* for upstream answers at the same time): both returned, the search with the
\* two results it returned when it ran alone, the extraction with gap records
C25_Witness ==
  /\ runs = 2
  /\ suspended.interleaved
  /\ FirstLocals.pc = "done"
  /\ SecondLocals.pc = "done"
  /\ FirstLocals.call.tool = "search"
  /\ SecondLocals.call.tool = "gaps"
  /\ Len(FirstLocals.response[1].results) = 2
  /\ SecondLocals.response[1].total_gaps_identified >= 2
  /\ FirstLocals.response = firstResponse

\* the connections that were opened and have neither closed nor errored
LiveConnections == {id \in 1..Len(sseEvents) : sseEvents[id] = {}}

\* C27: after any interleaving of GET /sse openings, client closes and
\* connection errors the registry holds exactly the connections that were
\* opened and have neither closed nor errored; a connection gets an id that
\* no connection had before; a close or an error removes at most its own
\* connection, also when the other event came first; GET /health reports
\* the number of registered connections.
C27_RegistryExact ==
  /\ [](/\ Len(sseEvents) = connectionCounter
        /\ sseConnections = LiveConnections)
  /\ [][ /\ \A id \in sseConnections' \ sseConnections : id > Len(sseEvents)
         /\ Cardinality(sseConnections \ sseConnections') <= 1
         /\ \A id \in sseConnections \ sseConnections' : sseEvents'[id] # sseEvents[id]
         /\ (httpRes' # httpRes /\ httpRes' # << >>
               /\ httpRes'[1].by = "GET /health") =>
              httpRes'[1].body = << "healthy", Cardinality(LiveConnections) >> ]_vars

\* the first connection has closed and errored, the second is registered,
\* and GET /health has just reported one connection
C27_Witness ==
  /\ connectionCounter = 2
  /\ sseEvents[1] = {"close", "error"}
  /\ sseConnections = {2}
  /\ httpRes # << >>
  /\ httpRes[1].body = << "healthy", 1 >>


\* ---- C28 ----

\* a POST /sse request that passed checkAuth has been answered
SseAnswered ==
  /\ httpReq.route = "POST /sse"
  /\ httpRes # << >>
  /\ httpRes[1].by = "POST /sse"

\* the member and, for an error, the code the claim gives the request's case
ClaimedMember ==
  CASE httpReq.param[1] = "tools/list" -> << "result" >>
    [] httpReq.param[1] = "tools/call" /\ pc = "done" -> << "result" >>
    [] httpReq.param[1] = "tools/call" -> << "error", "-32603" >>
    [] OTHER -> << "error", "-32601" >>

\* C28: every authenticated POST /sse JSON-RPC request is answered by one
\* JSON-RPC response that carries the id of the request and exactly one of
\* result and error: result for tools/list and for a tools/call that succeeds,
\* error -32603 for a tools/call whose tool fails or is unknown, error -32601
\* for any other method
C28_OneResponseWithRequestId ==
  /\ Len(httpRes) <= 1
  /\ SseAnswered =>
       /\ httpRes[1].body[3] = httpReq.id
       /\ httpRes[1].body[1] = ClaimedMember[1]
       /\ httpRes[1].body[1] = "error" => httpRes[1].body[2] = ClaimedMember[2]

====
